---- MODULE Spec2Model ----
(***************************************************************************)
(* A model of the warpout joystick proxy: the epoll connection server      *)
(* (src/src/server.cpp), the TLVC envelope codec (src/src/tlvc.cpp) and    *)
(* the server-side session handlers (src/src/warpout.cpp, the same logic   *)
(* as src/src/netstickd.cpp).                                              *)
(*                                                                         *)
(* The SLIP codec (warpout/slip.hpp) and the joystick records              *)
(* (warpout/joystick.hpp) are not among the sources; they are modelled     *)
(* from the specification and marked so in MODEL_MAP.json.                 *)
(***************************************************************************)
EXTENDS Integers, Sequences, FiniteSets, TLC

(***************************************************************************)
(* Bounds of the model.                                                    *)
(***************************************************************************)
\* capacity of the slot table (maxClients_ of server_create)
MaxClients == 2
\* number of peers that ever connect
MaxConns == 3
\* capacity of each descriptor array of the configuration record
ArrCap == 1

(***************************************************************************)
(* Small helpers on sequences and sets.                                    *)
(***************************************************************************)
Min(S) == CHOOSE x \in S : \A y \in S : x <= y

\* the sum of s[lo..hi], halving the range so that long sequences stay shallow
RECURSIVE SumRange(_, _, _)
SumRange(s, lo, hi) ==
    IF lo > hi THEN 0
    ELSE IF lo = hi THEN s[lo]
    ELSE SumRange(s, lo, (lo + hi) \div 2) + SumRange(s, (lo + hi) \div 2 + 1, hi)

SumSeq(s) == SumRange(s, 1, Len(s))

\* the concatenation of ss[lo..hi]
RECURSIVE FlattenRange(_, _, _)
FlattenRange(ss, lo, hi) ==
    IF lo > hi THEN <<>>
    ELSE IF lo = hi THEN ss[lo]
    ELSE FlattenRange(ss, lo, (lo + hi) \div 2) \o FlattenRange(ss, (lo + hi) \div 2 + 1, hi)

Flatten(ss) == FlattenRange(ss, 1, Len(ss))

Prefix(s, n) == SubSeq(s, 1, n)

Suffix(s, n) == SubSeq(s, n + 1, Len(s))

(***************************************************************************)
(* Fixed-width integers in host (little-endian) byte order.                *)
(***************************************************************************)
U16LE(n) == <<n % 256, (n \div 256) % 256>>

U16At(raw, off) == raw[off + 1] + 256 * raw[off + 2]

\* the four bytes of an int32_t (\div rounds down, so this is two's complement)
I32LE(v) ==
    <<v % 256, (v \div 256) % 256, (v \div 65536) % 256, (v \div 16777216) % 256>>

\* the int32_t four bytes are read as
I32Of(b) ==
    b[1] + 256 * b[2] + 65536 * b[3]
    + 16777216 * (IF b[4] >= 128 THEN b[4] - 256 ELSE b[4])

(***************************************************************************)
(* TLVC envelope: header {tag:u16, length:u16}, payload, footer            *)
(* {checksum:u16}.                                                         *)
(***************************************************************************)
TlvcHeaderSize == 4
TlvcFooterSize == 2

\* a faulty variant of tlvc_encode_data whose checksum leaves out the header
tlvc_encode_data_payloadsum(tag, data) ==
    [header |-> U16LE(tag) \o U16LE(Len(data) % 65536),
     data |-> data,
     dataLen |-> Len(data),
     footer |-> U16LE(SumSeq(data) % 65536)]

\* tlvc_encode_data: the header, the payload and the additive checksum
tlvc_encode_data(tag, data) ==
    LET header == U16LE(tag) \o U16LE(Len(data) % 65536)
    IN  [header |-> header,
         data |-> data,
         dataLen |-> Len(data),
         footer |-> U16LE((SumSeq(header) + SumSeq(data)) % 65536)]

\* a faulty variant of EnvelopeBytes that leaves out the footer
EnvelopeBytes_nofooter(t) == t.header \o t.data

\* the bytes encode_and_transmit serialises: header || payload || footer
EnvelopeBytes(t) == t.header \o t.data \o t.footer

\* a faulty variant of tlvc_decode_data that does not verify the checksum
tlvc_decode_data_nochecksum(raw) ==
    IF Len(raw) < TlvcHeaderSize + TlvcFooterSize
      THEN [ok |-> FALSE]
      ELSE LET payloadLen == U16At(raw, 2)
           IN  IF TlvcHeaderSize + payloadLen + TlvcFooterSize # Len(raw)
                 THEN [ok |-> FALSE]
                 ELSE [ok |-> TRUE,
                       tag |-> U16At(raw, 0),
                       data |-> SubSeq(raw, TlvcHeaderSize + 1, TlvcHeaderSize + payloadLen),
                       dataLen |-> payloadLen]

\* a faulty variant of tlvc_decode_data that sums the payload only
tlvc_decode_data_payloadsum(raw) ==
    IF Len(raw) < TlvcHeaderSize + TlvcFooterSize
      THEN [ok |-> FALSE]
      ELSE LET payloadLen == U16At(raw, 2)
               checksumRange == TlvcHeaderSize + payloadLen
           IN  IF TlvcHeaderSize + payloadLen + TlvcFooterSize # Len(raw)
                 THEN [ok |-> FALSE]
                 ELSE IF U16At(raw, checksumRange)
                           # (SumSeq(Prefix(raw, checksumRange))
                              - SumSeq(Prefix(raw, TlvcHeaderSize))) % 65536
                   THEN [ok |-> FALSE]
                   ELSE [ok |-> TRUE,
                         tag |-> U16At(raw, 0),
                         data |-> SubSeq(raw, TlvcHeaderSize + 1, checksumRange),
                         dataLen |-> payloadLen]

\* a faulty variant of tlvc_decode_data that accepts bytes after the footer
tlvc_decode_data_lenient(raw) ==
    IF Len(raw) < TlvcHeaderSize + TlvcFooterSize
      THEN [ok |-> FALSE]
      ELSE LET payloadLen == U16At(raw, 2)
               checksumRange == TlvcHeaderSize + payloadLen
           IN  IF TlvcHeaderSize + payloadLen + TlvcFooterSize > Len(raw)
                 THEN [ok |-> FALSE]
                 ELSE IF U16At(raw, checksumRange)
                           # SumSeq(Prefix(raw, checksumRange)) % 65536
                   THEN [ok |-> FALSE]
                   ELSE [ok |-> TRUE,
                         tag |-> U16At(raw, 0),
                         data |-> SubSeq(raw, TlvcHeaderSize + 1, checksumRange),
                         dataLen |-> payloadLen]

\* tlvc_decode_data: length checks, checksum check, then a view of the payload
tlvc_decode_data(raw) ==
    IF Len(raw) < TlvcHeaderSize + TlvcFooterSize
      THEN [ok |-> FALSE]
      ELSE LET payloadLen == U16At(raw, 2)
               checksumRange == TlvcHeaderSize + payloadLen
           IN  IF TlvcHeaderSize + payloadLen + TlvcFooterSize # Len(raw)
                 THEN [ok |-> FALSE]
                 ELSE IF U16At(raw, checksumRange)
                           # SumSeq(Prefix(raw, checksumRange)) % 65536
                   THEN [ok |-> FALSE]
                   ELSE [ok |-> TRUE,
                         tag |-> U16At(raw, 0),
                         data |-> SubSeq(raw, TlvcHeaderSize + 1, checksumRange),
                         dataLen |-> payloadLen]

(***************************************************************************)
(* SLIP byte stuffing.                                                     *)
(***************************************************************************)
SLIP_END == 192
SLIP_ESC == 219
SLIP_ESC_END == 220
SLIP_ESC_ESC == 221

\* slip_encode_byte
slip_encode_byte(b) ==
    IF b = SLIP_END THEN <<SLIP_ESC, SLIP_ESC_END>>
    ELSE IF b = SLIP_ESC THEN <<SLIP_ESC, SLIP_ESC_ESC>>
    ELSE <<b>>

\* slip_encode_begin .. slip_encode_finish over the raw envelope
slip_encode(raw) ==
    Flatten([i \in 1..Len(raw) |-> slip_encode_byte(raw[i])]) \o <<SLIP_END>>

\* slip_decode_begin: an empty buffer, no escape pending
slip_decode_begin(dec) == [dec EXCEPT !.raw = <<>>, !.esc = FALSE]

\* slip_decode_message_create
slip_decode_message_create(size) == [raw |-> <<>>, esc |-> FALSE, rawSize |-> size]

\* slip_decode_byte: the decoder after the byte, and the return code
slip_decode_byte(dec, b) ==
    LET put(x) == IF Len(dec.raw) >= dec.rawSize
                    THEN [dec |-> dec, rc |-> "SlipDecodeError"]
                    ELSE [dec |-> [dec EXCEPT !.raw = Append(@, x), !.esc = FALSE],
                          rc |-> "SlipDecodeOk"]
    IN  IF dec.esc
          THEN IF b = SLIP_ESC_END THEN put(SLIP_END)
               ELSE IF b = SLIP_ESC_ESC THEN put(SLIP_ESC)
               ELSE [dec |-> dec, rc |-> "SlipDecodeError"]
          ELSE IF b = SLIP_END THEN [dec |-> dec, rc |-> "SlipDecodeEndOfFrame"]
               ELSE IF b = SLIP_ESC THEN [dec |-> [dec EXCEPT !.esc = TRUE], rc |-> "SlipDecodeOk"]
               ELSE put(b)

(***************************************************************************)
(* Device wire schema: the configuration record (js_config_t) and the      *)
(* report layout.  The record is kept to its three counts and its three    *)
(* code arrays of ArrCap one-byte entries each; name, vendor and product   *)
(* id and the axis ranges play no part in the session logic.               *)
(***************************************************************************)
\* sizeof(js_config_t)
ConfigSize == 3 + 3 * ArrCap

Pad(codes) == codes \o [i \in 1..(ArrCap - Len(codes)) |-> 0]

\* the bytes of a js_config_t with the given code arrays
ConfigBytes(absAxis, relAxis, buttons) ==
    <<Len(absAxis), Len(relAxis), Len(buttons)>> \o Pad(absAxis) \o Pad(relAxis) \o Pad(buttons)

\* the js_config_t a payload of ConfigSize bytes is read as
ConfigOf(data) ==
    [absAxisCount |-> data[1],
     relAxisCount |-> data[2],
     buttonCount |-> data[3],
     absAxis |-> SubSeq(data, 4, 3 + ArrCap),
     relAxis |-> SubSeq(data, 4 + ArrCap, 3 + 2 * ArrCap),
     buttons |-> SubSeq(data, 4 + 2 * ArrCap, 3 + 3 * ArrCap)]

\* joystick_get_report_size
joystick_get_report_size(cfg) ==
    4 * cfg.absAxisCount + 4 * cfg.relAxisCount + cfg.buttonCount

(***************************************************************************)
(* The process's descriptor table: open() and accept() return the lowest   *)
(* descriptor that is not open.                                            *)
(***************************************************************************)
\* the listening socket (after stdin, stdout, stderr) and the epoll instance
ServerFd == 3
EpollFd == 4

FdPool == (EpollFd + 1)..(EpollFd + 2 * MaxConns)

LowestFree(fds) == Min(FdPool \ fds)

(***************************************************************************)
(* Session handlers of the server (warpout.cpp; netstickd.cpp has the same *)
(* logic under jsproxy_ names).  A handler is an operator from the         *)
(* state it may touch, st = [c: the client_ctx, fds: the open descriptors, *)
(* out: the events written to virtual devices, frames: a log of the frames *)
(* seen, buf: the bytes read and not yet decoded], to that state after the *)
(* call.                                                                   *)
(***************************************************************************)
NULL == <<>>

\* joystick_create: a virtual device on a fresh descriptor, holding a copy of the configuration
joystick_create(cfg, fds) == <<[fd |-> LowestFree(fds), config |-> cfg]>>

\* the size on_connect gives the decoder's buffer: here the largest envelope
\* of the protocol just fits, a report for a configuration whose arrays are
\* full (a configuration is shorter)
DecoderSize == TlvcHeaderSize + 9 * ArrCap + TlvcFooterSize

\* on_connect: a context with a begun decoder, awaiting configuration
on_connect(fd) ==
    [dec |-> slip_decode_begin(slip_decode_message_create(DecoderSize)),
     configSet |-> FALSE,
     jsctx |-> NULL]

\* the descriptors on_disconnect closes: joystick_destroy of the device, if any
on_disconnect(c) ==
    IF c.configSet /\ c.jsctx # NULL THEN {c.jsctx[1].fd} ELSE {}

\* emit_event: one input_event written to the device
emit_event(fd, type, code, val) == [fd |-> fd, type |-> type, code |-> code, value |-> val]

\* the byte at data_[off]: data_ points TlvcHeaderSize bytes into the decoder's
\* buffer, whose bytes past the cursor are whatever memory holds
DataByte(raw, off, stale) ==
    IF TlvcHeaderSize + off < Len(raw) THEN raw[TlvcHeaderSize + off + 1] ELSE stale

DataI32(raw, off, stale) ==
    I32Of([k \in 1..4 |-> DataByte(raw, off + k - 1, stale)])

\* a faulty variant of unpack_report that writes the buttons before the axes
unpack_report_keysfirst(c, raw, len, stale) ==
    LET js == c.jsctx[1]
        cfg == js.config
        relOff == 4 * cfg.absAxisCount
        btnOff == 4 * (cfg.absAxisCount + cfg.relAxisCount)
    IN  [i \in 1..cfg.buttonCount |->
            emit_event(js.fd, "EV_KEY", cfg.buttons[i], DataByte(raw, btnOff + i - 1, stale))]
        \o [i \in 1..cfg.absAxisCount |->
            emit_event(js.fd, "EV_ABS", cfg.absAxis[i], DataI32(raw, 4 * (i - 1), stale))]
        \o [i \in 1..cfg.relAxisCount |->
            emit_event(js.fd, "EV_REL", cfg.relAxis[i], DataI32(raw, relOff + 4 * (i - 1), stale))]
        \o <<emit_event(js.fd, "EV_SYN", 0, 0)>>

\* the tag-1 branch of handle_msg past the configSet test: the events emitted
unpack_report(c, raw, len, stale) ==
    LET js == c.jsctx[1]
        cfg == js.config
        relOff == 4 * cfg.absAxisCount
        btnOff == 4 * (cfg.absAxisCount + cfg.relAxisCount)
    IN  [i \in 1..cfg.absAxisCount |->
            emit_event(js.fd, "EV_ABS", cfg.absAxis[i], DataI32(raw, 4 * (i - 1), stale))]
        \o [i \in 1..cfg.relAxisCount |->
            emit_event(js.fd, "EV_REL", cfg.relAxis[i], DataI32(raw, relOff + 4 * (i - 1), stale))]
        \o [i \in 1..cfg.buttonCount |->
            emit_event(js.fd, "EV_KEY", cfg.buttons[i], DataByte(raw, btnOff + i - 1, stale))]
        \o <<emit_event(js.fd, "EV_SYN", 0, 0)>>

\* a faulty variant of handle_msg that lacks the configSet test of the tag-0 branch
handle_msg_reconfig(st, tag, data, len, raw, stale) ==
    IF tag = 0
      THEN IF len # ConfigSize THEN st
           ELSE LET js == joystick_create(ConfigOf(data), st.fds)
                IN  [st EXCEPT !.c.jsctx = js, !.c.configSet = TRUE,
                               !.fds = @ \cup {js[1].fd}]
    ELSE IF tag = 1
      THEN IF ~st.c.configSet THEN st
           ELSE [st EXCEPT !.out = @ \o unpack_report(st.c, raw, len, stale)]
    ELSE st

\* a faulty variant of handle_msg that lacks the configSet test of the tag-1 branch:
\* with no device yet, its closing sync event goes to no descriptor
handle_msg_unguarded(st, tag, data, len, raw, stale) ==
    IF tag = 0
      THEN IF st.c.configSet THEN st
           ELSE IF len # ConfigSize THEN st
           ELSE LET js == joystick_create(ConfigOf(data), st.fds)
                IN  [st EXCEPT !.c.jsctx = js, !.c.configSet = TRUE,
                               !.fds = @ \cup {js[1].fd}]
    ELSE IF tag = 1
      THEN IF st.c.jsctx = NULL
             THEN [st EXCEPT !.out = Append(@, emit_event(-1, "EV_SYN", 0, 0))]
             ELSE [st EXCEPT !.out = @ \o unpack_report(st.c, raw, len, stale)]
    ELSE st

\* a faulty variant of handle_msg that takes every tag but 1 for a configuration
handle_msg_anytag(st, tag, data, len, raw, stale) ==
    IF tag # 1
      THEN IF st.c.configSet THEN st
           ELSE IF len # ConfigSize THEN st
           ELSE LET js == joystick_create(ConfigOf(data), st.fds)
                IN  [st EXCEPT !.c.jsctx = js, !.c.configSet = TRUE,
                               !.fds = @ \cup {js[1].fd}]
    ELSE IF ~st.c.configSet THEN st
    ELSE [st EXCEPT !.out = @ \o unpack_report(st.c, raw, len, stale)]

\* handle_msg: st after a decoded envelope (tag, data, len) found in buffer raw
handle_msg(st, tag, data, len, raw, stale) ==
    IF tag = 0
      THEN IF st.c.configSet THEN st
           ELSE IF len # ConfigSize THEN st
           ELSE LET js == joystick_create(ConfigOf(data), st.fds)
                IN  [st EXCEPT !.c.jsctx = js, !.c.configSet = TRUE,
                               !.fds = @ \cup {js[1].fd}]
    ELSE IF tag = 1
      THEN IF ~st.c.configSet THEN st
           ELSE [st EXCEPT !.out = @ \o unpack_report(st.c, raw, len, stale)]
    ELSE st

\* a faulty variant of on_read_byte that does not begin the decoder again after
\* an error
on_read_byte_noresync(st, stale) ==
    LET r == slip_decode_byte(st.c.dec, Head(st.buf))
        fed == [st EXCEPT !.c.dec = r.dec, !.buf = Tail(@)]
    IN  IF r.rc = "SlipDecodeEndOfFrame"
          THEN LET tlvc == tlvc_decode_data(r.dec.raw)
                   h == IF tlvc.ok
                          THEN handle_msg(fed, tlvc.tag, tlvc.data, tlvc.dataLen, r.dec.raw, stale)
                          ELSE fed
               IN  [h EXCEPT !.c.dec = slip_decode_begin(@),
                             !.frames = Append(@, [raw |-> r.dec.raw, rc |-> r.rc,
                                                   ok |-> tlvc.ok,
                                                   left |-> Len(fed.buf),
                                                   was |-> st.c.configSet,
                                                   emitted |-> Len(h.out) - Len(st.out)])]
        ELSE IF r.rc # "SlipDecodeOk"
          THEN [fed EXCEPT !.c.dec = @,
                           !.frames = Append(@, [raw |-> r.dec.raw, rc |-> r.rc,
                                                 ok |-> FALSE,
                                                 left |-> Len(fed.buf),
                                                 was |-> st.c.configSet, emitted |-> 0])]
        ELSE fed

\* a faulty variant of on_read_byte that after an error keeps what the decoder
\* had accumulated and goes on
on_read_byte_salvage(st, stale) ==
    LET r == slip_decode_byte(st.c.dec, Head(st.buf))
        fed == [st EXCEPT !.c.dec = r.dec, !.buf = Tail(@)]
    IN  IF r.rc = "SlipDecodeEndOfFrame"
          THEN LET tlvc == tlvc_decode_data(r.dec.raw)
                   h == IF tlvc.ok
                          THEN handle_msg(fed, tlvc.tag, tlvc.data, tlvc.dataLen, r.dec.raw, stale)
                          ELSE fed
               IN  [h EXCEPT !.c.dec = slip_decode_begin(@),
                             !.frames = Append(@, [raw |-> r.dec.raw, rc |-> r.rc,
                                                   ok |-> tlvc.ok,
                                                   left |-> Len(fed.buf),
                                                   was |-> st.c.configSet,
                                                   emitted |-> Len(h.out) - Len(st.out)])]
        ELSE IF r.rc # "SlipDecodeOk"
          THEN [fed EXCEPT !.c.dec = [@ EXCEPT !.esc = FALSE],
                           !.frames = Append(@, [raw |-> r.dec.raw, rc |-> r.rc,
                                                 ok |-> FALSE,
                                                 left |-> Len(fed.buf),
                                                 was |-> st.c.configSet, emitted |-> 0])]
        ELSE fed

\* the body of on_read's inner loop for the next byte of buf; every frame end
\* and every error is logged with the buffer it met, whether the envelope was
\* handed to handle_msg (ok), and how many bytes of the input were left
on_read_byte(st, stale) ==
    LET r == slip_decode_byte(st.c.dec, Head(st.buf))
        fed == [st EXCEPT !.c.dec = r.dec, !.buf = Tail(@)]
    IN  IF r.rc = "SlipDecodeEndOfFrame"
          THEN LET tlvc == tlvc_decode_data(r.dec.raw)
                   h == IF tlvc.ok
                          THEN handle_msg(fed, tlvc.tag, tlvc.data, tlvc.dataLen, r.dec.raw, stale)
                          ELSE fed
               IN  [h EXCEPT !.c.dec = slip_decode_begin(@),
                             !.frames = Append(@, [raw |-> r.dec.raw, rc |-> r.rc,
                                                   ok |-> tlvc.ok,
                                                   left |-> Len(fed.buf),
                                                   was |-> st.c.configSet,
                                                   emitted |-> Len(h.out) - Len(st.out)])]
        ELSE IF r.rc # "SlipDecodeOk"
          THEN [fed EXCEPT !.c.dec = slip_decode_begin(@),
                           !.frames = Append(@, [raw |-> r.dec.raw, rc |-> r.rc,
                                                 ok |-> FALSE,
                                                 left |-> Len(fed.buf),
                                                 was |-> st.c.configSet, emitted |-> 0])]
        ELSE fed

\* a faulty variant of on_read_bytes that gives the decoder the first byte only
on_read_bytes_firstbyte(st, stale) ==
    IF st.buf = <<>> THEN st ELSE [on_read_byte(st, stale) EXCEPT !.buf = <<>>]

\* on_read's loops: every byte the reads returned (st.buf) goes to the decoder
RECURSIVE on_read_bytes(_, _)
on_read_bytes(st, stale) ==
    IF st.buf = <<>> THEN st ELSE on_read_bytes(on_read_byte(st, stale), stale)

\* a faulty variant of on_read_result that never asks for the connection to end
on_read_result_true(rd) == TRUE

\* a faulty variant of on_read_result that takes every failed read for the end
on_read_result_strict(rd) == rd > 0

\* on_read's result from the read() that ended the loop: rd = 0 is end of stream,
\* rd < 0 an error or would-block
on_read_result(rd) == rd # 0

(***************************************************************************)
(* What a peer may put on its connection.  A chunk is what one arrival     *)
(* adds to the socket's receive buffer: whole frames, frames cut in two,   *)
(* two frames at once, and malformed input.                                *)
(***************************************************************************)
\* encode_and_transmit up to the write loop: the stuffed frame of one message
Frame(tag, payload) == slip_encode(EnvelopeBytes(tlvc_encode_data(tag, payload)))

\* one absolute axis (code 1) and one button (code 2)
CfgA == ConfigBytes(<<1>>, <<>>, <<2>>)
\* one relative axis (code 3)
CfgB == ConfigBytes(<<>>, <<3>>, <<>>)

\* a report for CfgA: axis value 500, button pressed
RepA == I32LE(500) \o <<1>>
\* a report for CfgA whose axis value holds the terminator and the escape byte
RepEsc == I32LE(SLIP_END + 256 * SLIP_ESC) \o <<0>>

\* an envelope whose checksum is off by one
BadSum(tag, payload) ==
    LET t == tlvc_encode_data(tag, payload)
    IN  slip_encode(t.header \o t.data \o U16LE((U16At(t.footer, 0) + 1) % 65536))

\* an envelope followed by one more byte inside the same frame
BadLen(tag, payload) ==
    slip_encode(EnvelopeBytes(tlvc_encode_data(tag, payload)) \o <<0>>)

WholeFrames ==
    {Frame(0, CfgA), Frame(0, CfgB), Frame(0, Prefix(CfgA, ConfigSize - 1)),
     Frame(1, RepA), Frame(1, RepEsc),
     Frame(1, Prefix(RepA, Len(RepA) - 1)), Frame(1, RepA \o <<0>>), Frame(1, <<>>),
     Frame(2, <<>>), Frame(2, CfgA),
     BadSum(0, CfgA), BadSum(1, RepA), BadLen(0, CfgA), BadLen(1, RepA),
     <<1, SLIP_ESC, 5, SLIP_END>>,
     <<1, SLIP_ESC, SLIP_END>>,
     [i \in 1..(DecoderSize + 1) |-> 1] \o <<SLIP_END>>,
     <<1, 2, SLIP_END>>,
     <<SLIP_END>>}

\* the two halves of a frame cut after n bytes
Halves(f, n) == {Prefix(f, n), Suffix(f, n)}

AllChunks ==
    WholeFrames
    \cup Halves(Frame(0, CfgA), 5) \cup Halves(Frame(1, RepEsc), 5)
    \cup {Frame(0, CfgA) \o Frame(1, RepA), Frame(0, CfgA) \o Frame(0, CfgB),
          Frame(1, RepA) \o Frame(0, CfgA),
          <<1, SLIP_ESC, 5>> \o Frame(0, CfgA),
          <<1, SLIP_ESC, 5>>}

\* the chunks the peers of the many-connection server send
FewChunks == {Frame(0, CfgA), Frame(1, RepA)}

\* what memory past the decoder's cursor may hold
StaleBytes == {0, 255}

(***************************************************************************)
(* State.                                                                  *)
(***************************************************************************)
VARIABLES
    pc,         \* where server_run is: "start", "wait", "dispatch", "returned", "exited"
    cause,      \* the fatal error that ended server_run, "" while it runs
    ev,         \* the epoll_event epoll_wait returned, while it is dispatched
    slots,      \* S->clientContext: [inUse, clientFd, contextData] per slot
    fds,        \* the descriptors open in the process, past the epoll instance
    registered, \* the epoll interest list
    ready,      \* the descriptors with an edge not yet reported
    backlog,    \* connections completed by the kernel, not yet accepted
    nextConn,   \* the next peer to connect
    conn,       \* per connection: its state, descriptor, peer side and receive buffer
    heap,       \* per context id: <<client_ctx>> while allocated, <<>> otherwise
    calls,      \* per connection: how often each handler was invoked for it
    ops,        \* the calls the last dispatch made, in order
    out,        \* the events the last dispatch wrote to virtual devices
    frames,     \* the frames the last dispatch saw end, in order
    codec,      \* the codecs applied on their own: the input, the bytes, the results
    client,     \* run_client and the session it talks to: see ClientIdle
    fwd,        \* the forwarder's threads and their output stream: see ForwardIdle
    tx,         \* a call of encode_and_transmit in its write loop: see TransmitIdle
    mode        \* which peers there are: "server" (MaxConns peers, a few chunks)
                \* or "session" (one peer, every chunk)

vars == <<pc, cause, ev, slots, fds, registered, ready, backlog, nextConn, conn,
          heap, calls, ops, out, frames, codec, client, fwd, tx, mode>>

Conns == 1..MaxConns

\* the peers that connect, and what they send
NConn == IF mode = "server" THEN MaxConns ELSE 1

Chunks == IF mode = "server" THEN FewChunks ELSE AllChunks

Slots == 1..MaxClients

NoEvent == [fd |-> -1, in |-> FALSE, hup |-> FALSE]

\* the codecs at rest: nothing put in, nothing put out
CodecIdle ==
    [phase |-> "idle", tag |-> 0, payload |-> <<>>, wire |-> <<>>, tamper |-> "none",
     pos |-> 0, stuffed |-> <<>>, dec |-> slip_decode_message_create(0), rcs |-> <<>>,
     res |-> <<>>]

\* run_client not started.  pc: where run_client is; session: which call of
\* run_client this is; caps: the codes the device reports, per kind, in rising
\* order; config: the js_config_t built; report: rawReport; evs: the events
\* the loop has handled; idxs: the index js_index_map_get gave for each (-1
\* at a sync boundary); msgs: the calls of encode_and_transmit, tag and
\* result; wire: the bytes written and not yet read by the server; srv: the
\* server's client_ctx for the connection; srvFds: the server's open
\* descriptors; got: the events the server emitted
ClientIdle ==
    [pc |-> "start", session |-> 1,
     caps |-> [abs |-> <<>>, rel |-> <<>>, key |-> <<>>],
     config |-> <<>>, report |-> <<>>, evs |-> <<>>, idxs |-> <<>>, msgs |-> <<>>,
     wire |-> <<>>,
     srv |-> <<>>, srvFds |-> {}, got |-> <<>>]

\* no forwarding thread.  pc: where each thread is; ev: the event it has
\* read; mutex: the thread holding cout_mutex_, 0 for none; done: done_flag;
\* stream: what was inserted into std::cout, piece by piece; lines: events
\* read by all threads; late: the lines each thread began with done_flag
\* set; joined: the threads run() has joined; exit: what run() returned
ForwardIdle ==
    [pc |-> <<>>, ev |-> [t \in {} |-> 0], mutex |-> 0, done |-> FALSE,
     stream |-> <<>>, lines |-> 0, late |-> [t \in {} |-> 0], joined |-> 0,
     exit |-> "none"]

\* encode_and_transmit not called.  pc: "idle", "loop" (in the write loop),
\* "true" and "false" (returned), "killed" (the process ended inside
\* write()); frame: enc->encoded; raw: how far the pointer raw has moved;
\* remaining: the bytes still to write; sock: the bytes the socket took;
\* last: what the last write() did; again: the writes that were interrupted
\* or would have blocked
TransmitIdle ==
    [pc |-> "idle", frame |-> <<>>, raw |-> 0, remaining |-> 0, sock |-> <<>>,
     last |-> "none", again |-> 0]

InitCommon ==
    /\ pc = "start"
    /\ cause = ""
    /\ ev = NoEvent
    /\ slots = [i \in Slots |-> [inUse |-> FALSE, clientFd |-> -1, contextData |-> 0]]
    /\ fds = {}
    /\ registered = {}
    /\ ready = {}
    /\ backlog = <<>>
    /\ nextConn = 1
    /\ conn = [c \in Conns |-> [st |-> "idle", fd |-> -1, peer |-> "open", rx |-> <<>>]]
    /\ heap = [c \in Conns |-> <<>>]
    /\ calls = [c \in Conns |-> [connect |-> 0, read |-> 0, disconnect |-> 0]]
    /\ ops = <<>>
    /\ out = <<>>
    /\ frames = <<>>

(***************************************************************************)
(* The kernel's side: which connection a descriptor is, and what epoll     *)
(* reports for it.                                                         *)
(***************************************************************************)
ConnOfFd(fd) == CHOOSE c \in Conns : conn[c].st = "accepted" /\ conn[c].fd = fd

\* the events a descriptor shows when polled: input or a hangup
PollIn(fd) ==
    IF fd = ServerFd THEN backlog # <<>>
    ELSE conn[ConnOfFd(fd)].rx # <<>> \/ conn[ConnOfFd(fd)].peer # "open"

PollHup(fd) ==
    IF fd = ServerFd THEN FALSE ELSE conn[ConnOfFd(fd)].peer # "open"

\* a connection whose socket the server has closed
Closed(how) == [st |-> how, fd |-> -1, peer |-> "gone", rx |-> <<>>]

Alive == pc \in {"start", "wait", "dispatch"}

\* ops, out and frames tell what the last step did when it was a dispatch
NoHistory ==
    /\ ops' = <<>>
    /\ out' = <<>>
    /\ frames' = <<>>

(***************************************************************************)
(* The peers.                                                              *)
(***************************************************************************)
\* a peer's connect() completes: the connection waits to be accepted
PeerConnect ==
    /\ Alive
    /\ nextConn <= NConn
    /\ conn' = [conn EXCEPT ![nextConn].st = "queued"]
    /\ backlog' = Append(backlog, nextConn)
    /\ nextConn' = nextConn + 1
    /\ ready' = IF ServerFd \in registered THEN ready \cup {ServerFd} ELSE ready
    /\ NoHistory
    /\ UNCHANGED <<pc, cause, ev, slots, fds, registered, heap, calls,
                   codec, client, fwd, tx, mode>>

\* bytes of a peer arrive in the receive buffer of its socket
PeerSend(c, data) ==
    /\ Alive
    /\ conn[c].st \in {"queued", "accepted"}
    /\ conn[c].peer = "open"
    /\ conn[c].rx = <<>>
    /\ conn' = [conn EXCEPT ![c].rx = data]
    /\ ready' = IF conn[c].st = "accepted" /\ conn[c].fd \in registered
                  THEN ready \cup {conn[c].fd} ELSE ready
    /\ NoHistory
    /\ UNCHANGED <<pc, cause, ev, slots, fds, registered, backlog, nextConn, heap, calls,
                   codec, client, fwd, tx, mode>>

\* a peer closes its side ("fin") or the connection breaks ("rst", which
\* discards what was not read)
PeerClose(c, how) ==
    /\ Alive
    /\ conn[c].st \in {"queued", "accepted"}
    /\ conn[c].peer = "open"
    /\ conn' = [conn EXCEPT ![c].peer = how,
                            ![c].rx = IF how = "rst" THEN <<>> ELSE @]
    /\ ready' = IF conn[c].st = "accepted" /\ conn[c].fd \in registered
                  THEN ready \cup {conn[c].fd} ELSE ready
    /\ NoHistory
    /\ UNCHANGED <<pc, cause, ev, slots, fds, registered, backlog, nextConn, heap, calls,
                   codec, client, fwd, tx, mode>>

(***************************************************************************)
(* server_run.                                                             *)
(***************************************************************************)
\* epoll_create1 and epoll_add of the listening socket; epoll_add exits on failure
ServerRunStart ==
    /\ pc = "start"
    /\ \E addOk \in BOOLEAN :
          IF addOk
            THEN /\ pc' = "wait"
                 /\ cause' = cause
                 /\ registered' = {ServerFd}
                 /\ ready' = IF backlog # <<>> THEN {ServerFd} ELSE {}
            ELSE /\ pc' = "exited"
                 /\ cause' = "epoll_ctl ADD"
                 /\ UNCHANGED <<registered, ready>>
    /\ UNCHANGED <<ev, slots, fds, backlog, nextConn, conn, heap, calls, ops, out, frames,
                   codec, client, fwd, tx, mode>>

\* the descriptors epoll_wait can report: an unreported edge and an event to show
Reportable == {fd \in ready : PollIn(fd) \/ PollHup(fd)}

\* epoll_wait(efd, &ev, 1, -1): one event, or a failure (fd = -1) that ends the loop
EpollWait ==
    /\ pc = "wait"
    /\ \E fd \in Reportable \cup {-1} :
          IF fd = -1
            THEN /\ pc' = "returned"
                 /\ cause' = "epoll_wait"
                 /\ UNCHANGED <<ev, ready>>
            ELSE /\ pc' = "dispatch"
                 /\ cause' = cause
                 /\ ev' = [fd |-> fd, in |-> PollIn(fd), hup |-> PollHup(fd)]
                 /\ ready' = Reportable \ {fd}
    /\ NoHistory
    /\ UNCHANGED <<slots, fds, registered, backlog, nextConn, conn, heap, calls,
                   codec, client, fwd, tx, mode>>

\* a faulty variant of FreeSlots that does not test inUse
FreeSlots_any == Slots

\* the slots server_on_client_connect may take: those not in use
FreeSlots == {i \in Slots : ~slots[i].inUse}

\* a faulty variant of FreedSlot that leaves the descriptor in the slot
FreedSlot_keepfd(s) == [s EXCEPT !.inUse = FALSE]

\* a faulty variant of FreedSlot that leaves the slot as it is
FreedSlot_forgotten(s) == s

\* server_on_client_disconnect's last two assignments
FreedSlot(s) == [s EXCEPT !.inUse = FALSE, !.clientFd = -1]

\* a faulty variant of IsHangup that lets input go first
IsHangup_inputfirst(e) == e.hup /\ ~e.in

\* server_run's test of the event for hangup or error
IsHangup(e) == e.hup

\* server_run's test of the event for input
IsInput(e) == e.in

\* a faulty variant of AfterClientEvent whose break leaves the while loop too
AfterClientEvent_break(err) == IF err THEN "returned" ELSE "wait"

\* where server_run is after a client event: the break leaves the search for
\* the slot, and the loop waits again
AfterClientEvent(err) == "wait"

\* a faulty variant of ConnectOps that registers the socket first
ConnectOps_addfirst(c, cfd) == <<<<"epoll_add", cfd>>, <<"onConnect", c>>>>

\* the calls of server_on_client_connect for a connection given a slot, in
\* their order: the handler, then the registration
ConnectOps(c, cfd) == <<<<"onConnect", c>>, <<"epoll_add", cfd>>>>

\* the listening socket is ready: accept() one connection, then
\* server_on_client_connect.  accept() may fail, which ends the loop;
\* epoll_add exits on failure.
DispatchAccept ==
    /\ pc = "dispatch"
    /\ ev.fd = ServerFd
    /\ backlog # <<>>
    /\ \E acceptOk \in BOOLEAN, addOk \in BOOLEAN :
        LET c == Head(backlog)
            cfd == LowestFree(fds)
            i == Min(FreeSlots)
        IN  IF ~acceptOk
              THEN /\ pc' = "returned"
                   /\ cause' = "accept"
                   /\ ops' = <<>>
                   /\ UNCHANGED <<slots, fds, registered, ready, backlog, conn, heap, calls>>
            ELSE IF FreeSlots # {}
              THEN /\ slots' = [slots EXCEPT ![i] = [inUse |-> TRUE, clientFd |-> cfd,
                                                     contextData |-> c]]
                   /\ heap' = [heap EXCEPT ![c] = <<on_connect(cfd)>>]
                   /\ calls' = [calls EXCEPT ![c].connect = @ + 1]
                   /\ fds' = fds \cup {cfd}
                   /\ backlog' = Tail(backlog)
                   /\ conn' = [conn EXCEPT ![c].st = "accepted", ![c].fd = cfd]
                   /\ IF addOk
                        THEN /\ registered' = registered \cup {cfd}
                             /\ ready' = IF conn[c].rx # <<>> \/ conn[c].peer # "open"
                                           THEN ready \cup {cfd} ELSE ready
                             /\ ops' = ConnectOps(c, cfd)
                             /\ pc' = "wait"
                             /\ cause' = cause
                        ELSE /\ UNCHANGED <<registered, ready>>
                             /\ ops' = Prefix(ConnectOps(c, cfd), 1)
                             /\ pc' = "exited"
                             /\ cause' = "epoll_ctl ADD"
              ELSE /\ backlog' = Tail(backlog)
                   /\ conn' = [conn EXCEPT ![c] = Closed("refused")]
                   /\ ops' = <<<<"close", cfd>>>>
                   /\ pc' = "wait"
                   /\ cause' = cause
                   /\ UNCHANGED <<slots, fds, registered, ready, heap, calls>>
    /\ ev' = NoEvent
    /\ UNCHANGED <<nextConn, out, frames, codec, client, fwd, tx, mode>>

\* a faulty variant of SlotsOfFd that takes the slots in use, whatever descriptor
\* they hold
SlotsOfFd_inuse(fd) == {i \in Slots : slots[i].inUse}

\* server_run's search for the slot of a client event: the slots holding the
\* descriptor, of which the loop takes the first
SlotsOfFd(fd) == {i \in Slots : slots[i].clientFd = fd}

\* a client socket is ready: hangup or error tears the connection down, input
\* goes to onReadData, whose false return tears it down too.  The teardown is
\* server_on_client_disconnect; its epoll_del exits on failure.
DispatchClient ==
    /\ pc = "dispatch"
    /\ ev.fd # ServerFd
    /\ \A i \in Slots : slots[i].clientFd = ev.fd => heap[slots[i].contextData] # <<>>
    /\ \E stale \in StaleBytes :
        LET match == SlotsOfFd(ev.fd)
            i == Min(match)
            c == ConnOfFd(ev.fd)
            id == slots[i].contextData
            reads == ~IsHangup(ev) /\ IsInput(ev)
            \* on_read: everything buffered, then the read() that ends the loop
            rd == IF conn[c].peer = "fin" THEN 0 ELSE -1
            st0 == [c |-> heap[id][1], fds |-> fds, out |-> <<>>, frames |-> <<>>,
                    buf |-> IF reads THEN conn[c].rx ELSE <<>>]
            st1 == on_read_bytes(st0, stale)
            err == IF IsHangup(ev) THEN TRUE
                   ELSE IF IsInput(ev) THEN ~on_read_result(rd)
                   ELSE FALSE
            readOps == IF reads THEN <<<<"onReadData", id>>>> ELSE <<>>
            fd == slots[i].clientFd
        IN  \E delOk \in BOOLEAN :
            IF match = {}
              THEN /\ pc' = AfterClientEvent(FALSE)
                   /\ UNCHANGED <<cause, slots, fds, registered, ready, conn, heap, calls,
                                  ops, out, frames>>
            ELSE /\ out' = st1.out
                 /\ frames' = st1.frames
                 /\ IF ~err
                      THEN /\ heap' = [heap EXCEPT ![id] = <<st1.c>>]
                           /\ fds' = st1.fds
                           /\ calls' = [calls EXCEPT ![id].read = IF reads THEN 1 ELSE @]
                           /\ conn' = [conn EXCEPT ![c].rx = IF reads THEN <<>> ELSE @]
                           /\ ops' = readOps
                           /\ pc' = AfterClientEvent(err)
                           /\ UNCHANGED <<cause, slots, registered, ready>>
                    ELSE /\ heap' = [heap EXCEPT ![id] = <<>>]
                         /\ calls' = [calls EXCEPT ![id].read = IF reads THEN 1 ELSE @,
                                                   ![id].disconnect = @ + 1]
                         /\ IF delOk
                              THEN /\ fds' = (st1.fds \ on_disconnect(st1.c)) \ {fd}
                                   /\ registered' = registered \ {fd}
                                   /\ ready' = ready \ {fd}
                                   /\ conn' = [conn EXCEPT ![c] = Closed("ended")]
                                   /\ slots' = [slots EXCEPT ![i] = FreedSlot(@)]
                                   /\ ops' = readOps \o <<<<"onDisconnect", id>>,
                                                <<"epoll_del", fd>>, <<"close", fd>>,
                                                <<"free", i>>>>
                                   /\ pc' = AfterClientEvent(err)
                                   /\ cause' = cause
                              ELSE /\ fds' = st1.fds \ on_disconnect(st1.c)
                                   /\ conn' = [conn EXCEPT ![c].rx = IF reads THEN <<>> ELSE @]
                                   /\ ops' = readOps \o <<<<"onDisconnect", id>>>>
                                   /\ pc' = "exited"
                                   /\ cause' = "epoll_ctl DEL"
                                   /\ UNCHANGED <<slots, registered, ready>>
    /\ ev' = NoEvent
    /\ UNCHANGED <<backlog, nextConn, codec, client, fwd, tx, mode>>

Next ==
    \/ ServerRunStart
    \/ PeerConnect
    \/ \E c \in Conns : \E data \in Chunks : PeerSend(c, data)
    \/ \E c \in Conns : \E how \in {"fin", "rst"} : PeerClose(c, how)
    \/ EpollWait
    \/ DispatchAccept
    \/ DispatchClient

\* the server with all its peers
Init ==
    /\ InitCommon
    /\ mode = "server"
    /\ codec = CodecIdle
    /\ client = ClientIdle
    /\ fwd = ForwardIdle
    /\ tx = TransmitIdle

Spec == Init /\ [][Next]_vars

\* one connection, with every kind of input
InitSession ==
    /\ InitCommon
    /\ mode = "session"
    /\ codec = CodecIdle
    /\ client = ClientIdle
    /\ fwd = ForwardIdle
    /\ tx = TransmitIdle

SpecSession == InitSession /\ [][Next]_vars

\* epoll_wait reports the descriptor fd
Reports(fd) == EpollWait /\ ev'.fd = fd

\* what the loop and the kernel guarantee.  server_run starts.  Its handlers
\* do not block (the sockets are non-blocking), so a dispatch begun is done:
\* the dispatch actions are enabled whenever pc = "dispatch", which makes
\* "again and again not in a dispatch" their weak fairness.  And epoll keeps
\* the descriptors with an unreported edge in a list it reports from the
\* head of, so a descriptor that is ready again and again is reported.
Fairness ==
    /\ WF_vars(ServerRunStart)
    /\ []<>(pc # "dispatch")
    /\ \A fd \in {ServerFd} \cup FdPool : SF_vars(Reports(fd))

\* the server with all its peers, as scheduled
FairSpec == Spec /\ Fairness

\* the one-connection server, as scheduled
FairSpecSession == SpecSession /\ Fairness

(***************************************************************************)
(* The codecs on their own: an input is drawn, encoded, possibly damaged,  *)
(* and decoded, one call per step.                                         *)
(***************************************************************************)
\* longest payload and longest raw input drawn
MaxPayload == 3
MaxRaw == 7

SeqsUpTo(S, n) == UNION {[1..k -> S] : k \in 0..n}

\* payload bytes: the least, the greatest, the terminator and the escape
CodecBytes == {0, SLIP_END, SLIP_ESC, 255}

\* tags: the known ones, an unknown one, one whose bytes are the terminator
\* and the escape, the greatest
CodecTags == {0, 1, 2, SLIP_END + 256 * SLIP_ESC, 65535}

\* a payload whose bytes sum past 65535
LongPayload == [i \in 1..258 |-> 255]

CodecPayloads == SeqsUpTo(CodecBytes, MaxPayload) \cup {LongPayload}

\* byte strings handed to tlvc_decode_data as they are
RawInputs == SeqsUpTo({0, 1, 2}, MaxRaw)

\* the decoder of this bench holds the envelope of a payload of MaxPayload bytes
CodecDecoderSize == TlvcHeaderSize + MaxPayload + TlvcFooterSize

\* byte x with bit b flipped
FlipBit(x, b) == IF (x \div (2 ^ b)) % 2 = 1 THEN x - 2 ^ b ELSE x + 2 ^ b

serverVars == <<pc, cause, ev, slots, fds, registered, ready, backlog, nextConn, conn,
                heap, calls, ops, out, frames, mode>>

\* tlvc_encode_data, then the bytes header || payload || footer
CodecEncode ==
    /\ codec.phase = "input"
    /\ codec' = [codec EXCEPT !.phase = "encoded",
                              !.wire = EnvelopeBytes(tlvc_encode_data(codec.tag, codec.payload))]
    /\ UNCHANGED <<serverVars, client, fwd, tx>>

\* one bit of the encoded bytes flips
CodecFlip ==
    /\ codec.phase = "encoded"
    /\ \E i \in 1..Len(codec.wire), b \in 0..7 :
          codec' = [codec EXCEPT !.phase = "damaged", !.tamper = "flip", !.pos = i,
                                 !.wire[i] = FlipBit(@, b)]
    /\ UNCHANGED <<serverVars, client, fwd, tx>>

\* the encoded bytes lose their end
CodecCut ==
    /\ codec.phase = "encoded"
    /\ \E n \in 0..(Len(codec.wire) - 1) :
          codec' = [codec EXCEPT !.phase = "damaged", !.tamper = "cut", !.pos = n,
                                 !.wire = Prefix(@, n)]
    /\ UNCHANGED <<serverVars, client, fwd, tx>>

\* the encoded bytes are followed by one more byte
CodecPad ==
    /\ codec.phase = "encoded"
    /\ \E x \in CodecBytes :
          codec' = [codec EXCEPT !.phase = "damaged", !.tamper = "pad",
                                 !.pos = Len(codec.wire) + 1, !.wire = Append(@, x)]
    /\ UNCHANGED <<serverVars, client, fwd, tx>>

\* tlvc_decode_data of the bytes
CodecDecode ==
    /\ codec.phase \in {"encoded", "damaged", "raw"}
    /\ codec' = [codec EXCEPT !.phase = "decoded", !.res = <<tlvc_decode_data(codec.wire)>>]
    /\ UNCHANGED <<serverVars, client, fwd, tx>>

\* the sender's encode path: the stuffed frame of the message, for a decoder
\* that was just begun
CodecStuff ==
    /\ codec.phase = "encoded"
    /\ codec' = [codec EXCEPT
                    !.phase = "feeding",
                    !.stuffed = Frame(codec.tag, codec.payload),
                    !.dec = slip_decode_begin(slip_decode_message_create(CodecDecoderSize))]
    /\ UNCHANGED <<serverVars, client, fwd, tx>>

\* slip_decode_byte of the next byte of the frame
CodecFeed ==
    /\ codec.phase = "feeding"
    /\ LET r == slip_decode_byte(codec.dec, Head(codec.stuffed))
       IN  codec' = [codec EXCEPT !.dec = r.dec,
                                  !.rcs = Append(@, r.rc),
                                  !.stuffed = Tail(@),
                                  !.phase = IF Len(codec.stuffed) = 1 THEN "fed" ELSE @]
    /\ UNCHANGED <<serverVars, client, fwd, tx>>

NextCodec ==
    \/ CodecEncode
    \/ CodecFlip
    \/ CodecCut
    \/ CodecPad
    \/ CodecDecode
    \/ CodecStuff
    \/ CodecFeed

\* a message to encode, or raw bytes to decode
InitCodec ==
    /\ InitCommon
    /\ mode = "codec"
    /\ client = ClientIdle
    /\ fwd = ForwardIdle
    /\ tx = TransmitIdle
    /\ \/ \E t \in CodecTags, p \in CodecPayloads :
             codec = [CodecIdle EXCEPT !.phase = "input", !.tag = t, !.payload = p]
       \/ \E w \in RawInputs :
             codec = [CodecIdle EXCEPT !.phase = "raw", !.tamper = "raw", !.wire = w]

SpecCodec == InitCodec /\ [][NextCodec]_vars

(***************************************************************************)
(* The capturing client: run_client, called again and again by main, and   *)
(* the server's session handlers at the other end of its connection.       *)
(***************************************************************************)
\* events one call of run_client handles, and calls of run_client
MaxEvents == 3
MaxSessions == 2

\* the codes 1..n in rising order
Codes(n) == [i \in 1..n |-> i]

\* the entries of each array of js_index_map_t, which is also the bound of
\* run_client's scan of the codes (the kernel's KEY_MAX is the highest code
\* a device can have, so the arrays are one entry short of the codes)
KEY_MAX == 4

\* the devices run_client may open: one absolute axis (code 1) and one button
\* (code 2); one relative axis (code 3); as many codes of each kind as the
\* configuration holds; no axis and no button (every code is below KEY_MAX,
\* where the scan ends)
ClientDevices ==
    {[abs |-> <<1>>, rel |-> <<>>, key |-> <<2>>],
     [abs |-> <<>>, rel |-> <<3>>, key |-> <<>>],
     [abs |-> Codes(ArrCap), rel |-> Codes(ArrCap), key |-> Codes(ArrCap)],
     [abs |-> <<>>, rel |-> <<>>, key |-> <<>>]}

\* an input_event as far as run_client looks at it
Event(type, code, value) == [type |-> type, code |-> code, value |-> value]

\* what the device may deliver: a sync boundary, and events of a kind and a
\* code the device may or may not have reported, with positive, negative
\* and zero values, one whose bytes need stuffing, and a key of the highest
\* code there is
ClientEvents ==
    {Event("EV_SYN", 0, 0), Event("EV_MSC", 1, 500),
     Event("EV_ABS", 1, 500), Event("EV_ABS", 1, -3), Event("EV_ABS", 2, 500),
     Event("EV_REL", 3, -3), Event("EV_REL", 1, SLIP_END + 256 * SLIP_ESC),
     Event("EV_KEY", 2, 7), Event("EV_KEY", 2, 0), Event("EV_KEY", 1, 1),
     Event("EV_KEY", KEY_MAX, 1)}

\* what the int after the end of js_index_map_t's last array may hold
StaleIndexes == {-1, 0, KEY_MAX}

\* the socket the server accepted for the client's connection
ClientSock == Min(FdPool)

\* run_client's scan of the device's capabilities: the js_config_t sent
BuildConfig(caps) == ConfigBytes(caps.abs, caps.rel, caps.key)

\* a faulty variant of js_index_map_get over a map whose entries
\* js_index_map_init left at 0
js_index_map_get_noinit(caps, type, code, stale) ==
    LET codes == IF type = "EV_ABS" THEN caps.abs
                 ELSE IF type = "EV_REL" THEN caps.rel
                 ELSE IF type = "EV_KEY" THEN caps.key
                 ELSE <<>>
    IN  IF type \notin {"EV_ABS", "EV_REL", "EV_KEY"} THEN -1
        ELSE IF code >= KEY_MAX THEN stale
        ELSE IF \E i \in 1..Len(codes) : codes[i] = code
          THEN (CHOOSE i \in 1..Len(codes) : codes[i] = code) - 1
          ELSE 0

\* js_index_map_get over the map run_client's scan filled: for a code the
\* arrays have an entry for, the position of the code among the codes of
\* its kind, or -1; for the code KEY_MAX, what lies after the array (stale)
js_index_map_get(caps, type, code, stale) ==
    LET codes == IF type = "EV_ABS" THEN caps.abs
                 ELSE IF type = "EV_REL" THEN caps.rel
                 ELSE IF type = "EV_KEY" THEN caps.key
                 ELSE <<>>
    IN  IF type \notin {"EV_ABS", "EV_REL", "EV_KEY"} THEN -1
        ELSE IF code >= KEY_MAX THEN stale
        ELSE IF \E i \in 1..Len(codes) : codes[i] = code
          THEN (CHOOSE i \in 1..Len(codes) : codes[i] = code) - 1
          ELSE -1

\* whether the store of an event at index idx lies inside rawReport
InReport(report, caps, e, idx) ==
    IF e.type = "EV_KEY"
      THEN 4 * (Len(caps.abs) + Len(caps.rel)) + idx < Len(report)
    ELSE IF e.type = "EV_ABS" THEN 4 * idx + 4 <= Len(report)
    ELSE 4 * Len(caps.abs) + 4 * idx + 4 <= Len(report)

\* a store of bytes at offset off of a buffer
StoreAt(buf, off, bytes) ==
    [i \in 1..Len(buf) |->
        IF i > off /\ i <= off + Len(bytes) THEN bytes[i - off] ELSE buf[i]]

\* a faulty variant of StoreEvent that stores a button's value as it is
StoreEvent_rawkey(report, caps, e, idx) ==
    LET relOff == 4 * Len(caps.abs)
        btnOff == 4 * (Len(caps.abs) + Len(caps.rel))
    IN  IF e.type = "EV_KEY"
          THEN StoreAt(report, btnOff + idx, <<e.value % 256>>)
        ELSE IF e.type = "EV_ABS" THEN StoreAt(report, 4 * idx, I32LE(e.value))
        ELSE IF e.type = "EV_REL" THEN StoreAt(report, relOff + 4 * idx, I32LE(e.value))
        ELSE report

\* a faulty variant of StoreEvent that stores a relative axis where the
\* absolute axes are
StoreEvent_reloverabs(report, caps, e, idx) ==
    LET btnOff == 4 * (Len(caps.abs) + Len(caps.rel))
    IN  IF e.type = "EV_KEY"
          THEN StoreAt(report, btnOff + idx, <<IF e.value # 0 THEN 1 ELSE 0>>)
        ELSE IF e.type = "EV_ABS" THEN StoreAt(report, 4 * idx, I32LE(e.value))
        ELSE IF e.type = "EV_REL" THEN StoreAt(report, 4 * idx, I32LE(e.value))
        ELSE report

\* the event loop's store of an event into rawReport through the three
\* pointers of js_report_t
StoreEvent(report, caps, e, idx) ==
    LET relOff == 4 * Len(caps.abs)
        btnOff == 4 * (Len(caps.abs) + Len(caps.rel))
    IN  IF e.type = "EV_KEY"
          THEN StoreAt(report, btnOff + idx, <<IF e.value # 0 THEN 1 ELSE 0>>)
        ELSE IF e.type = "EV_ABS" THEN StoreAt(report, 4 * idx, I32LE(e.value))
        ELSE IF e.type = "EV_REL" THEN StoreAt(report, relOff + 4 * idx, I32LE(e.value))
        ELSE report

\* what the write loop of encode_and_transmit may have put on the socket
\* when it ends: the whole frame, or a part of it before a write failed
TransmitCuts(frame) == {0, 3, Len(frame)}

\* a faulty variant of encode_and_transmit that leaves out the last byte of
\* the data
encode_and_transmit_short(tag, data, k, sigpipe) ==
    [ok |-> k = Len(Frame(tag, data)),
     killed |-> sigpipe /\ k < Len(Frame(tag, data)),
     sent |-> LET short == Frame(tag, IF data = <<>> THEN data
                                      ELSE Prefix(data, Len(data) - 1))
              IN  IF k < Len(short) THEN Prefix(short, k) ELSE short]

\* encode_and_transmit, its write loop ending with k bytes written.  A
\* write() that fails returns -1, or, on a connection the peer has closed,
\* raises SIGPIPE as well (sigpipe): no handler is installed and the signal
\* is not ignored, so the process ends inside write().
encode_and_transmit(tag, data, k, sigpipe) ==
    [ok |-> k = Len(Frame(tag, data)),
     killed |-> sigpipe /\ k < Len(Frame(tag, data)),
     sent |-> Prefix(Frame(tag, data), k)]

\* a faulty variant of AfterTransmit that goes on after a failed transmission
AfterTransmit_goon(t) == IF t.killed THEN "killed" ELSE "loop"

\* where run_client goes after encode_and_transmit: into (or on with) the
\* event loop, or to closing the socket and the device and returning; when
\* the signal ended the process, nowhere
AfterTransmit(t) ==
    IF t.ok THEN "loop" ELSE IF t.killed THEN "killed" ELSE "backoff"

\* open() of the device and the scan of its capabilities, or open() fails
ClientOpen ==
    /\ mode = "client"
    /\ client.pc = "start"
    /\ \E ok \in BOOLEAN :
          client' = IF ok
                      THEN [client EXCEPT !.pc = "connect", !.config = BuildConfig(client.caps)]
                      ELSE [client EXCEPT !.pc = "backoff"]
    /\ UNCHANGED <<serverVars, codec, fwd, tx>>

\* socket() and connect(), or one of them fails; the server accepts the
\* connection and on_connect makes its context
ClientConnect ==
    /\ mode = "client"
    /\ client.pc = "connect"
    /\ \E ok \in BOOLEAN :
          client' = IF ok
                      THEN [client EXCEPT !.pc = "config",
                                          !.srv = <<on_connect(ClientSock)>>,
                                          !.srvFds = {ClientSock}]
                      ELSE [client EXCEPT !.pc = "backoff"]
    /\ UNCHANGED <<serverVars, codec, fwd, tx>>

\* step 4 and 5 of run_client: the configuration is transmitted, and the
\* report buffer is made, all zero
ClientSendConfig ==
    /\ mode = "client"
    /\ client.pc = "config"
    /\ \E k \in TransmitCuts(Frame(0, client.config)), sigpipe \in BOOLEAN :
          LET t == encode_and_transmit(0, client.config, k, sigpipe)
              size == joystick_get_report_size(ConfigOf(client.config))
          IN  client' = [client EXCEPT
                  !.pc = AfterTransmit(t),
                  !.msgs = Append(@, [tag |-> 0, ok |-> t.ok]),
                  !.wire = @ \o t.sent,
                  !.report = [i \in 1..size |-> 0]]
    /\ UNCHANGED <<serverVars, codec, fwd, tx>>

\* the event loop's body for one event read from the device; an index that
\* lies outside rawReport makes the store overwrite what lies after the
\* buffer, and what the process does from there on is not defined
ClientEvent(e) ==
    /\ mode = "client"
    /\ client.pc = "loop"
    /\ Len(client.evs) < MaxEvents
    /\ IF e.type = "EV_SYN"
         THEN \E k \in TransmitCuts(Frame(1, client.report)), sigpipe \in BOOLEAN :
                LET t == encode_and_transmit(1, client.report, k, sigpipe)
                IN  client' = [client EXCEPT
                        !.pc = AfterTransmit(t),
                        !.evs = Append(@, e),
                        !.idxs = Append(@, -1),
                        !.msgs = Append(@, [tag |-> 1, ok |-> t.ok]),
                        !.wire = @ \o t.sent]
         ELSE \E stale \in StaleIndexes :
                LET idx == js_index_map_get(client.caps, e.type, e.code, stale)
                IN  IF idx < 0
                      THEN client' = [client EXCEPT !.evs = Append(@, e),
                                                    !.idxs = Append(@, idx)]
                    ELSE IF InReport(client.report, client.caps, e, idx)
                      THEN client' = [client EXCEPT
                              !.evs = Append(@, e),
                              !.idxs = Append(@, idx),
                              !.report = StoreEvent(@, client.caps, e, idx)]
                    ELSE client' = [client EXCEPT
                              !.pc = "undefined",
                              !.evs = Append(@, e),
                              !.idxs = Append(@, idx)]
    /\ UNCHANGED <<serverVars, codec, fwd, tx>>

\* read() of the device returns nothing or fails: the loop ends, the
\* socket and the device are closed and run_client returns
ClientReadEnd ==
    /\ mode = "client"
    /\ client.pc = "loop"
    /\ client' = [client EXCEPT !.pc = "backoff"]
    /\ UNCHANGED <<serverVars, codec, fwd, tx>>

\* main's loop, which has no end: after sleep(4), run_client again, on a new
\* connection (the sessions are counted up to MaxSessions and no further)
ClientRestart ==
    /\ mode = "client"
    /\ client.pc = "backoff"
    /\ client' = [ClientIdle EXCEPT !.session = Min({client.session + 1, MaxSessions}),
                                    !.caps = client.caps]
    /\ UNCHANGED <<serverVars, codec, fwd, tx>>

\* the server's on_read for the client's connection: the bytes in flight,
\* or the first of them, are read and go through the decoder and the handlers
ServerRead ==
    /\ mode = "client"
    /\ client.srv # <<>>
    /\ \E n \in {5, Len(client.wire)} \cap (1..Len(client.wire)) :
       \E stale \in StaleBytes :
          LET st == on_read_bytes([c |-> client.srv[1], fds |-> client.srvFds,
                                   out |-> <<>>, frames |-> <<>>,
                                   buf |-> Prefix(client.wire, n)], stale)
          IN  client' = [client EXCEPT !.wire = Suffix(@, n),
                                       !.srv = <<st.c>>,
                                       !.srvFds = st.fds,
                                       !.got = @ \o st.out]
    /\ UNCHANGED <<serverVars, codec, fwd, tx>>

NextClient ==
    \/ ClientOpen
    \/ ClientConnect
    \/ ClientSendConfig
    \/ \E e \in ClientEvents : ClientEvent(e)
    \/ ClientReadEnd
    \/ ClientRestart
    \/ ServerRead

\* run_client about to be called for a device
InitClient ==
    /\ InitCommon
    /\ mode = "client"
    /\ codec = CodecIdle
    /\ \E d \in ClientDevices : client = [ClientIdle EXCEPT !.caps = d]
    /\ fwd = ForwardIdle
    /\ tx = TransmitIdle

SpecClient == InitClient /\ [][NextClient]_vars

\* the client as scheduled: sleep(4) returns, and main's loop calls
\* run_client again
FairSpecClient == SpecClient /\ WF_vars(ClientRestart)

(***************************************************************************)
(* The event forwarder (client.cpp): one thread per device, each writing   *)
(* its events as lines to the standard output they share.                  *)
(***************************************************************************)
\* forwarding threads, and events forwarded by all of them together
MaxThreads == 2
MaxLines == 3

Threads == 1..MaxThreads

\* the events a device delivers
ForwardEvents == {Event("EV_KEY", 2, 1), Event("EV_ABS", 1, 500)}

\* the two insertions of `std::cout << out.dump() << std::endl', as written
\* by thread t (0 is the main thread)
TextPiece(t, what) == [by |-> t, kind |-> "text", what |-> what]
EndlPiece(t) == [by |-> t, kind |-> "endl", what |-> ""]

\* run() up to launchForwardThreads: the protocol version and the device
\* information are on the stream before any thread exists
StreamAtLaunch ==
    <<TextPiece(0, "version"), EndlPiece(0), TextPiece(0, "info"), EndlPiece(0)>>

\* a faulty variant of MutexFree that lets every thread in
MutexFree_always(owner) == TRUE

\* what std::lock_guard<std::mutex> waits for: cout_mutex_ is held by nobody
MutexFree(owner) == owner = 0

\* thread t opens its device and sets up libevdev, or fails at it and
\* raises done_flag
ForwardOpen(t) ==
    /\ mode = "forward"
    /\ fwd.pc[t] = "open"
    /\ \E ok \in BOOLEAN :
          fwd' = IF ok THEN [fwd EXCEPT !.pc[t] = "loop"]
                 ELSE [fwd EXCEPT !.pc[t] = "exited", !.done = TRUE]
    /\ UNCHANGED <<serverVars, codec, client, tx>>

\* the test of `while (!done_flag)'
ForwardLoop(t) ==
    /\ mode = "forward"
    /\ fwd.pc[t] = "loop"
    /\ fwd' = [fwd EXCEPT !.pc[t] = IF fwd.done THEN "exited" ELSE "next"]
    /\ UNCHANGED <<serverVars, codec, client, tx>>

\* libevdev_next_event returns: an event, a resynchronisation (which is only
\* logged), -EAGAIN (the loop ends) or another error (done_flag is raised too)
ForwardNext(t) ==
    /\ mode = "forward"
    /\ fwd.pc[t] = "next"
    /\ \/ \E e \in ForwardEvents :
             /\ fwd.lines < MaxLines
             /\ fwd' = [fwd EXCEPT !.pc[t] = "lock", !.ev[t] = e, !.lines = @ + 1]
       \/ fwd' = [fwd EXCEPT !.pc[t] = "loop"]
       \/ \E again \in BOOLEAN :
             fwd' = [fwd EXCEPT !.pc[t] = "exited", !.done = IF again THEN @ ELSE TRUE]
    /\ UNCHANGED <<serverVars, codec, client, tx>>

\* the lock_guard's constructor returns with cout_mutex_ held
ForwardLock(t) ==
    /\ mode = "forward"
    /\ fwd.pc[t] = "lock"
    /\ MutexFree(fwd.mutex)
    /\ fwd' = [fwd EXCEPT !.pc[t] = "dump", !.mutex = t]
    /\ UNCHANGED <<serverVars, codec, client, tx>>

\* std::cout << out.dump()
ForwardDump(t) ==
    /\ mode = "forward"
    /\ fwd.pc[t] = "dump"
    /\ fwd' = [fwd EXCEPT !.pc[t] = "endl",
                          !.stream = Append(@, TextPiece(t, <<t, fwd.ev[t]>>)),
                          !.late[t] = IF fwd.done THEN @ + 1 ELSE @]
    /\ UNCHANGED <<serverVars, codec, client, tx>>

\* << std::endl
ForwardEndl(t) ==
    /\ mode = "forward"
    /\ fwd.pc[t] = "endl"
    /\ fwd' = [fwd EXCEPT !.pc[t] = "unlock", !.stream = Append(@, EndlPiece(t))]
    /\ UNCHANGED <<serverVars, codec, client, tx>>

\* the lock_guard's destructor at the end of the block
ForwardUnlock(t) ==
    /\ mode = "forward"
    /\ fwd.pc[t] = "unlock"
    /\ fwd' = [fwd EXCEPT !.pc[t] = "loop", !.mutex = 0]
    /\ UNCHANGED <<serverVars, codec, client, tx>>

\* run()'s loop over threads_: join() returns for the next thread, in the
\* order they were started, once its function has returned
ForwardJoin ==
    /\ mode = "forward"
    /\ fwd.exit = "none"
    /\ fwd.joined < MaxThreads
    /\ fwd.pc[fwd.joined + 1] = "exited"
    /\ fwd' = [fwd EXCEPT !.joined = @ + 1]
    /\ UNCHANGED <<serverVars, codec, client, tx>>

\* run() returns: EXIT_FAILURE if done_ is set, 0 otherwise
ForwardReturn ==
    /\ mode = "forward"
    /\ fwd.exit = "none"
    /\ fwd.joined = MaxThreads
    /\ fwd' = [fwd EXCEPT !.exit = IF fwd.done THEN "failure" ELSE "success"]
    /\ UNCHANGED <<serverVars, codec, client, tx>>

NextForward ==
    \/ \E t \in Threads : ForwardOpen(t)
    \/ \E t \in Threads : ForwardLoop(t)
    \/ \E t \in Threads : ForwardNext(t)
    \/ \E t \in Threads : ForwardLock(t)
    \/ \E t \in Threads : ForwardDump(t)
    \/ \E t \in Threads : ForwardEndl(t)
    \/ \E t \in Threads : ForwardUnlock(t)
    \/ ForwardJoin
    \/ ForwardReturn

\* launchForwardThreads has started a thread for each device
InitForward ==
    /\ InitCommon
    /\ mode = "forward"
    /\ codec = CodecIdle
    /\ client = ClientIdle
    /\ fwd = [ForwardIdle EXCEPT !.pc = [t \in Threads |-> "open"],
                                 !.ev = [t \in Threads |-> Event("EV_SYN", 0, 0)],
                                 !.stream = StreamAtLaunch,
                                 !.late = [t \in Threads |-> 0]]
    /\ tx = TransmitIdle

SpecForward == InitForward /\ [][NextForward]_vars

\* the steps of a thread that wait for nothing outside the program, or for
\* the mutex only: all but the return of libevdev_next_event, which on a
\* device opened for blocking reads waits for the device's next event
ThreadStep(t) ==
    \/ ForwardOpen(t)
    \/ ForwardLoop(t)
    \/ ForwardLock(t)
    \/ ForwardDump(t)
    \/ ForwardEndl(t)
    \/ ForwardUnlock(t)

\* the forwarder as scheduled: every thread that can take a step gets to
\* take it, the main thread included
FairSpecForward ==
    /\ SpecForward
    /\ \A t \in Threads : WF_vars(ThreadStep(t))
    /\ WF_vars(ForwardJoin)
    /\ WF_vars(ForwardReturn)

(***************************************************************************)
(* encode_and_transmit's write loop, one write() per step.                 *)
(***************************************************************************)
\* how often in one call write() is interrupted or would block
MaxAgain == 2

\* the messages transmitted: both tags, payloads with and without bytes
\* that need stuffing
TransmitInputs ==
    {[tag |-> t, data |-> d] : t \in {0, 1}, d \in {<<>>, <<7>>, <<SLIP_END, 1>>}}

\* the frame is encoded; remaining = enc->index, raw = enc->encoded
TransmitBegin ==
    /\ mode = "transmit"
    /\ tx.pc = "idle"
    /\ \E m \in TransmitInputs :
          tx' = [TransmitIdle EXCEPT !.pc = "loop",
                                     !.frame = Frame(m.tag, m.data),
                                     !.remaining = Len(Frame(m.tag, m.data))]
    /\ UNCHANGED <<serverVars, codec, client, fwd>>

\* where the loop is after a write that took bytes: out of the loop, and
\* returning true, when nothing remains
AfterWritten(remaining) == IF remaining > 0 THEN "loop" ELSE "true"

\* write() takes written bytes, some or all of what remains
TransmitWritten ==
    /\ mode = "transmit"
    /\ tx.pc = "loop"
    /\ \E written \in 1..tx.remaining :
          tx' = [tx EXCEPT !.sock = @ \o SubSeq(tx.frame, tx.raw + 1, tx.raw + written),
                           !.remaining = @ - written,
                           !.raw = @ + written,
                           !.last = "written",
                           !.pc = AfterWritten(tx.remaining - written)]
    /\ UNCHANGED <<serverVars, codec, client, fwd>>

\* write() returns -1 with EINTR or EAGAIN: the loop goes round
TransmitAgain ==
    /\ mode = "transmit"
    /\ tx.pc = "loop"
    /\ tx.again < MaxAgain
    /\ tx' = [tx EXCEPT !.last = "again", !.again = @ + 1]
    /\ UNCHANGED <<serverVars, codec, client, fwd>>

\* write() fails with another error: on a connection the peer has closed it
\* raises SIGPIPE first (sigpipe), which ends the process, as no handler is
\* installed and the signal is not ignored; otherwise it returns -1 and
\* encode_and_transmit returns false
TransmitFail ==
    /\ mode = "transmit"
    /\ tx.pc = "loop"
    /\ \E sigpipe \in BOOLEAN :
          tx' = [tx EXCEPT !.last = "failed",
                           !.pc = IF sigpipe THEN "killed" ELSE "false"]
    /\ UNCHANGED <<serverVars, codec, client, fwd>>

NextTransmit ==
    \/ TransmitBegin
    \/ TransmitWritten
    \/ TransmitAgain
    \/ TransmitFail

\* encode_and_transmit about to be called
InitTransmit ==
    /\ InitCommon
    /\ mode = "transmit"
    /\ codec = CodecIdle
    /\ client = ClientIdle
    /\ fwd = ForwardIdle
    /\ tx = TransmitIdle

SpecTransmit == InitTransmit /\ [][NextTransmit]_vars

\* the write loop as it runs: it has no suspension point but write()
\* itself, which returns
FairSpecTransmit == SpecTransmit /\ WF_vars(NextTransmit)

(***************************************************************************)
(* Properties of the connection server.                                    *)
(***************************************************************************)
InUse == {i \in Slots : slots[i].inUse}

Accepted == {c \in Conns : conn[c].st = "accepted"}

Refused == {c \in Conns : conn[c].st = "refused"}

Ended == {c \in Conns : conn[c].st = "ended"}

\* the descriptors of the virtual devices of the allocated contexts
DeviceFds ==
    {heap[c][1].jsctx[1].fd : c \in {d \in Conns : heap[d] # <<>> /\ heap[d][1].jsctx # NULL}}

\* C1: slot bound.  The server never holds more than MaxClients connections;
\* a refused connection has had no handler invoked and its socket is closed
\* (every open descriptor is an accepted connection's or a device's); and
\* with no teardown so far, the connections accepted beyond MaxClients are
\* exactly the refused ones.
SlotBound ==
    /\ Cardinality(InUse) <= MaxClients
    /\ Cardinality(Accepted) <= MaxClients
    /\ \A c \in Refused :
          /\ calls[c] = [connect |-> 0, read |-> 0, disconnect |-> 0]
          /\ heap[c] = <<>>
    /\ Alive => fds = {conn[c].fd : c \in Accepted} \cup DeviceFds
    /\ (Alive /\ Ended = {}) =>
          /\ Cardinality(InUse) = Cardinality(Accepted)
          /\ Cardinality(Refused) > 0 => Cardinality(InUse) = MaxClients

\* MaxClients + 1 connections were accepted with no teardown: one is refused
SlotBoundWitness ==
    /\ Ended = {}
    /\ Cardinality(Accepted) = MaxClients
    /\ Cardinality(Refused) = 1
    /\ Cardinality(InUse) = MaxClients

\* C2: a slot's descriptor is valid exactly when the slot is in use
FdValidIffInUse ==
    \A i \in Slots : (slots[i].clientFd # -1) <=> slots[i].inUse

\* a slot in use beside a slot that was in use and has been freed
FdValidIffInUseWitness ==
    /\ Ended # {}
    /\ \E i, j \in Slots : slots[i].inUse /\ ~slots[j].inUse

\* C3: no two slots hold the same valid descriptor
SlotFdsDistinct ==
    \A i, j \in Slots :
        (i # j /\ slots[i].clientFd # -1) => slots[i].clientFd # slots[j].clientFd

\* every slot is in use, one of them with a descriptor that an earlier,
\* torn down connection held
SlotFdsDistinctWitness ==
    /\ InUse = Slots
    /\ \E c \in Accepted, d \in Ended : d < c /\ conn[c].fd = Min(FdPool)

\* the calls of a teardown of slot i, in the order of server_on_client_disconnect
TeardownOps(i, fd, id) ==
    <<<<"onDisconnect", id>>, <<"epoll_del", fd>>, <<"close", fd>>, <<"free", i>>>>

\* the descriptors on_disconnect closes for context id
DeviceFdsOf(id) ==
    IF heap[id][1].jsctx # NULL THEN {heap[id][1].jsctx[1].fd} ELSE {}

\* C4: one teardown for every end of a connection.  A slot is freed only in
\* the dispatch of an event of its socket that is a hangup or whose read met
\* the end of the stream; the step calls onDisconnect once with the slot's
\* context, then unregisters and closes the socket, then frees the slot; and
\* what it leaves of the server's state depends on the state before only, not
\* on the trigger.  Each such event does end the connection, unless epoll_del
\* fails and the process exits.
TeardownSinglePath ==
    [][ /\ \A i \in Slots :
            (slots[i].inUse /\ ~slots'[i].inUse) =>
                LET fd == slots[i].clientFd
                    id == slots[i].contextData
                    c == ConnOfFd(fd)
                IN  /\ pc = "dispatch" /\ ev.fd = fd
                    /\ ev.hup \/ (ev.in /\ conn[c].peer = "fin")
                    /\ SubSeq(ops', Len(ops') - 3, Len(ops')) = TeardownOps(i, fd, id)
                    /\ Len(ops') = IF ev.hup THEN 4 ELSE 5
                    /\ calls'[id].disconnect = 1
                    /\ heap'[id] = <<>>
                    /\ slots' = [slots EXCEPT ![i] = [inUse |-> FALSE, clientFd |-> -1,
                                                      contextData |-> id]]
                    /\ registered' = registered \ {fd}
                    /\ fds' = fds \ ({fd} \cup DeviceFdsOf(id))
                    /\ conn'[c].st = "ended"
        /\ (pc = "dispatch" /\ pc' # "dispatch" /\ ev.fd # ServerFd) =>
                LET c == ConnOfFd(ev.fd)
                IN  (ev.hup \/ (ev.in /\ conn[c].peer = "fin")) =>
                        (conn'[c].st = "ended" \/ pc' = "exited")
      ]_vars

\* a connection was torn down because its read handler returned false
TeardownSinglePathWitness ==
    /\ Len(ops) = 5
    /\ ops[1][1] = "onReadData"
    /\ ops[5][1] = "free"

\* C5 as stated: server_run ends only on a failure of epoll_wait or of a
\* registration with epoll
RunEndsOnMultiplexerErrorOnly ==
    ~Alive => cause \in {"epoll_wait", "epoll_ctl ADD", "epoll_ctl DEL"}

\* C5, amended: server_run returns only when epoll_wait fails or when accept
\* fails, and then nothing was accepted; the process exits only when epoll_ctl
\* fails; the dispatch of a client event never makes server_run return.
RunEndsOnFatalErrorOnly ==
    [][ /\ pc' = "returned" =>
            \/ pc = "returned"
            \/ pc = "wait" /\ cause' = "epoll_wait"
            \/ /\ pc = "dispatch" /\ ev.fd = ServerFd /\ cause' = "accept"
               /\ slots' = slots /\ backlog' = backlog /\ conn' = conn
        /\ pc' = "exited" => cause' \in {"epoll_ctl ADD", "epoll_ctl DEL"}
        /\ (pc = "dispatch" /\ ev.fd # ServerFd) => pc' \in {"dispatch", "wait", "exited"}
      ]_vars

\* server_run has returned because accept failed
RunEndsOnFatalErrorOnlyWitness == pc = "returned" /\ cause = "accept"

(***************************************************************************)
(* Properties of the session handlers.                                     *)
(***************************************************************************)
\* the slot whose socket the dispatched event is for
EventSlot == CHOOSE i \in Slots : slots[i].clientFd = ev.fd

\* a client event is being dispatched, and this step is its dispatch
ClientDispatch == pc = "dispatch" /\ ev.fd # ServerFd /\ pc' # "dispatch"

\* an envelope as the protocol defines it: header, payload of the length the
\* header states, footer holding the sum of all bytes before it mod 65536
WellFormed(raw) ==
    /\ Len(raw) >= 6
    /\ raw[3] + 256 * raw[4] = Len(raw) - 6
    /\ raw[Len(raw) - 1] + 256 * raw[Len(raw)]
         = SumSeq(SubSeq(raw, 1, Len(raw) - 2)) % 65536

TagOf(raw) == raw[1] + 256 * raw[2]

PayloadOf(raw) == SubSeq(raw, 5, Len(raw) - 2)

\* a logged frame that is a well-formed message of the tag
MessageOf(f, tag) ==
    f.rc = "SlipDecodeEndOfFrame" /\ WellFormed(f.raw) /\ TagOf(f.raw) = tag

\* a logged frame that is a well-formed configuration of the record's size
ConfigMessage(f) == MessageOf(f, 0) /\ Len(PayloadOf(f.raw)) = ConfigSize

\* C6: no input ends a connection.  When the read handler runs for an input
\* event and the stream has not ended, whatever bytes it is given, the server
\* goes back to waiting with the slot table as it was, the connection still
\* attached and registered, its context alive and no onDisconnect called.
ReadNeverEndsConnection ==
    [][ (ClientDispatch /\ ~ev.hup /\ ev.in /\ conn[ConnOfFd(ev.fd)].peer # "fin") =>
            LET c == ConnOfFd(ev.fd)
                id == slots[EventSlot].contextData
            IN  /\ pc' = "wait"
                /\ slots' = slots
                /\ slots'[EventSlot].inUse
                /\ registered' = registered
                /\ conn'[c].st = "accepted" /\ conn'[c].fd = ev.fd
                /\ heap'[id] # <<>>
                /\ calls'[id].disconnect = 0
                /\ ops' = <<<<"onReadData", id>>>>
      ]_vars

\* the read handler has met a stuffing error or an oversize frame and the
\* connection is still attached
ReadNeverEndsConnectionWitness ==
    /\ pc = "wait"
    /\ \E k \in 1..Len(frames) : frames[k].rc = "SlipDecodeError"
    /\ \E i \in Slots : /\ slots[i].inUse
                        /\ ops = <<<<"onReadData", slots[i].contextData>>>>
                        /\ heap[slots[i].contextData] # <<>>

\* C7: the only way to Configured.  A context starts AwaitingConfig with no
\* device; its configured flag and its device change only from unset to set,
\* in a step whose input held a well-formed tag-0 message of ConfigSize bytes
\* seen while unset, and the device then has that message's configuration;
\* a step without such a message opens no descriptor.
ConfiguredOnlyByConfigMessage ==
    [][ /\ \A id \in Conns :
            /\ (heap[id] = <<>> /\ heap'[id] # <<>>) =>
                   (~heap'[id][1].configSet /\ heap'[id][1].jsctx = NULL)
            /\ (/\ heap[id] # <<>> /\ heap'[id] # <<>>
                /\ \/ heap'[id][1].configSet # heap[id][1].configSet
                   \/ heap'[id][1].jsctx # heap[id][1].jsctx) =>
                   /\ ~heap[id][1].configSet /\ heap[id][1].jsctx = NULL
                   /\ heap'[id][1].configSet /\ heap'[id][1].jsctx # NULL
                   /\ ClientDispatch /\ slots[EventSlot].contextData = id
                   /\ \E k \in 1..Len(frames') :
                         /\ ConfigMessage(frames'[k]) /\ ~frames'[k].was
                         /\ heap'[id][1].jsctx[1].config = ConfigOf(PayloadOf(frames'[k].raw))
                   /\ heap'[id][1].jsctx[1].fd \in fds' \ fds
        /\ (\A k \in 1..Len(frames') : ~(ConfigMessage(frames'[k]) /\ ~frames'[k].was)) =>
               fds' \ fds \subseteq {conn'[c].fd : c \in Conns}
      ]_vars

\* a connection has just become Configured
ConfiguredOnlyByConfigMessageWitness ==
    /\ pc = "wait"
    /\ \E i \in Slots :
          /\ slots[i].inUse
          /\ heap[slots[i].contextData] # <<>>
          /\ heap[slots[i].contextData][1].configSet
          /\ \E k \in 1..Len(frames) : ConfigMessage(frames[k]) /\ ~frames[k].was

\* C8: the first configuration is final.  A Configured context that lives on
\* is Configured after every step, with the same device and configuration;
\* the dispatch of its own input opens no descriptor; a tag-0 message seen
\* while Configured emits nothing, and when one follows the first
\* configuration in the same input, the first one is the active one.
ConfigurationIsFinal ==
    [][ /\ \A id \in Conns :
            (heap[id] # <<>> /\ heap[id][1].configSet /\ heap'[id] # <<>>) =>
                /\ heap'[id][1].configSet
                /\ heap'[id][1].jsctx = heap[id][1].jsctx
                /\ heap'[id][1].jsctx[1].fd \in fds'
                /\ (ClientDispatch /\ slots[EventSlot].contextData = id) => fds' \subseteq fds
        /\ \A k \in 1..Len(frames') :
            (frames'[k].was /\ MessageOf(frames'[k], 0)) =>
                /\ frames'[k].emitted = 0
                /\ LET id == slots[EventSlot].contextData
                   IN  (heap[id] # <<>> /\ ~heap[id][1].configSet /\ heap'[id] # <<>>) =>
                          \E j \in 1..(k - 1) :
                             /\ ConfigMessage(frames'[j]) /\ ~frames'[j].was
                             /\ heap'[id][1].jsctx[1].config
                                  = ConfigOf(PayloadOf(frames'[j].raw))
      ]_vars

\* a Configured connection (configuration CfgA) has just been sent another
\* configuration (CfgB), and CfgA is still the active one
ConfigurationIsFinalWitness ==
    /\ pc = "wait"
    /\ \E i \in Slots :
          /\ slots[i].inUse
          /\ heap[slots[i].contextData] # <<>>
          /\ heap[slots[i].contextData][1].configSet
          /\ heap[slots[i].contextData][1].jsctx[1].config = ConfigOf(CfgA)
          /\ \E k \in 1..Len(frames) :
                /\ ConfigMessage(frames[k]) /\ frames[k].was
                /\ PayloadOf(frames[k].raw) = CfgB

\* C9: a report before the configuration is dropped.  A tag-1 message seen
\* while AwaitingConfig emits no event; and when the input of a dispatch is
\* nothing but such messages, the step writes no event, opens no descriptor,
\* and leaves the context as on_connect made it: AwaitingConfig, no device,
\* the decoder begun afresh.
ReportBeforeConfigDropped ==
    [][ ClientDispatch =>
            LET id == slots[EventSlot].contextData
            IN  /\ \A k \in 1..Len(frames') :
                      (MessageOf(frames'[k], 1) /\ ~frames'[k].was) => frames'[k].emitted = 0
                /\ (/\ frames' # <<>>
                    /\ \A k \in 1..Len(frames') : MessageOf(frames'[k], 1) /\ ~frames'[k].was
                    /\ heap'[id] # <<>>) =>
                        /\ out' = <<>>
                        /\ fds' = fds
                        /\ heap'[id] = <<on_connect(ev.fd)>>
      ]_vars

\* a report has just been received by a connection that awaits its
\* configuration, and the connection still awaits it
ReportBeforeConfigDroppedWitness ==
    /\ pc = "wait"
    /\ \E i \in Slots :
          /\ slots[i].inUse
          /\ heap[slots[i].contextData] # <<>>
          /\ ~heap[slots[i].contextData][1].configSet
          /\ ops = <<<<"onReadData", slots[i].contextData>>>>
          /\ \E k \in 1..Len(frames) :
                MessageOf(frames[k], 1) /\ ~frames[k].was /\ PayloadOf(frames[k].raw) = RepA

\* C10 as stated: size binding.  A tag-1 message seen while Configured is
\* unpacked and emitted exactly when its payload length is the report size
\* of the active configuration.
ReportSizeBinding ==
    \A i \in Slots :
        (/\ slots[i].inUse
         /\ ops = <<<<"onReadData", slots[i].contextData>>>>
         /\ heap[slots[i].contextData] # <<>>
         /\ heap[slots[i].contextData][1].configSet) =>
            \A k \in 1..Len(frames) :
                (MessageOf(frames[k], 1) /\ frames[k].was) =>
                    (frames[k].emitted > 0
                       <=> Len(PayloadOf(frames[k].raw))
                             = joystick_get_report_size(
                                   heap[slots[i].contextData][1].jsctx[1].config))

\* a logged frame that is a well-formed message of a tag other than 0 and 1
UnknownMessage(f) ==
    f.rc = "SlipDecodeEndOfFrame" /\ WellFormed(f.raw) /\ TagOf(f.raw) \notin {0, 1}

\* C11: a message of an unknown tag is dropped.  Such a message emits no
\* event; when the input of a dispatch is nothing but such messages, the step
\* writes no event, opens and closes no descriptor, leaves the configured
\* flag, the device and its configuration as they were and the decoder begun
\* afresh; and unless the stream has ended the connection keeps its slot.
UnknownTagDropped ==
    [][ ClientDispatch =>
            LET id == slots[EventSlot].contextData
                c == ConnOfFd(ev.fd)
            IN  /\ \A k \in 1..Len(frames') : UnknownMessage(frames'[k]) => frames'[k].emitted = 0
                /\ (/\ frames' # <<>>
                    /\ \A k \in 1..Len(frames') : UnknownMessage(frames'[k])) =>
                        /\ out' = <<>>
                        /\ heap'[id] # <<>> =>
                              /\ fds' = fds
                              /\ heap'[id] = <<[heap[id][1] EXCEPT !.dec = slip_decode_begin(@)]>>
                        /\ conn[c].peer # "fin" =>
                              /\ heap'[id] # <<>>
                              /\ slots' = slots
                              /\ conn'[c].st = "accepted"
                              /\ pc' = "wait"
      ]_vars

\* a Configured connection has just received a message of tag 2 carrying a
\* configuration record, and is as it was
UnknownTagDroppedWitness ==
    /\ pc = "wait"
    /\ \E i \in Slots :
          /\ slots[i].inUse
          /\ heap[slots[i].contextData] # <<>>
          /\ heap[slots[i].contextData][1].configSet
          /\ heap[slots[i].contextData][1].jsctx[1].config = ConfigOf(CfgB)
          /\ ops = <<<<"onReadData", slots[i].contextData>>>>
          /\ \E k \in 1..Len(frames) :
                UnknownMessage(frames[k]) /\ PayloadOf(frames[k].raw) = CfgA

(***************************************************************************)
(* Properties of the codecs.                                               *)
(***************************************************************************)
\* C12: envelope round trip.  Decoding the bytes header || payload || footer
\* that tlvc_encode_data made of a tag and a payload succeeds and gives back
\* the tag, the payload's length and the payload's bytes.
EnvelopeRoundTrip ==
    (codec.phase = "decoded" /\ codec.tamper = "none") =>
        /\ codec.res[1].ok
        /\ codec.res[1].tag = codec.tag
        /\ codec.res[1].dataLen = Len(codec.payload)
        /\ codec.res[1].data = codec.payload

\* the greatest tag with a payload whose checksum wraps has made the round trip
EnvelopeRoundTripWitness ==
    /\ codec.phase = "decoded" /\ codec.tamper = "none"
    /\ codec.tag = 65535 /\ codec.payload = LongPayload
    /\ SumSeq(Prefix(codec.wire, Len(codec.wire) - 2)) > 65535
    /\ codec.res[1].ok

\* C13: checksum sensitivity.  An encoded envelope with one bit flipped in
\* its tag, its length field or its payload is not decoded.
ChecksumSensitivity ==
    (/\ codec.phase = "decoded" /\ codec.tamper = "flip"
     /\ codec.pos <= TlvcHeaderSize + Len(codec.payload)) =>
        codec.res = <<[ok |-> FALSE]>>

\* an envelope with a payload and one bit of its tag flipped was refused,
\* though its length field still fits
ChecksumSensitivityWitness ==
    /\ codec.phase = "decoded" /\ codec.tamper = "flip"
    /\ codec.pos = 1
    /\ codec.payload # <<>>
    /\ Len(codec.wire) = TlvcHeaderSize + (codec.wire[3] + 256 * codec.wire[4]) + TlvcFooterSize
    /\ ~codec.res[1].ok

\* C14: strict lengths.  Bytes shorter than header plus footer, and bytes
\* whose number is not 4 + the header's length field + 2, are not decoded,
\* and the failure carries no tag, no payload and no length.
DecodeLengthStrict ==
    (/\ codec.phase = "decoded"
     /\ \/ Len(codec.wire) < 6
        \/ Len(codec.wire) # 4 + (codec.wire[3] + 256 * codec.wire[4]) + 2) =>
        codec.res = <<[ok |-> FALSE]>>

\* an envelope followed by one more byte was refused; so were, before,
\* the cases the bench also holds: cut envelopes and raw bytes
DecodeLengthStrictWitness ==
    /\ codec.phase = "decoded" /\ codec.tamper = "pad"
    /\ codec.payload # <<>>
    /\ Len(codec.wire) = 4 + (codec.wire[3] + 256 * codec.wire[4]) + 2 + 1
    /\ codec.res = <<[ok |-> FALSE]>>

\* the envelope of the message the bench holds
CodecEnvelope ==
    LET t == tlvc_encode_data(codec.tag, codec.payload)
    IN  t.header \o t.data \o t.footer

\* C15: frame round trip.  When the frame the sender's encode path makes of
\* an envelope that fits the decoder is fed byte by byte to a decoder just
\* begun, every byte before the last gives SlipDecodeOk, the last gives
\* SlipDecodeEndOfFrame, and the decoder's buffer then holds the envelope.
FrameRoundTrip ==
    (codec.phase \in {"feeding", "fed"} /\ Len(CodecEnvelope) <= CodecDecoderSize) =>
        /\ \A k \in 1..Len(codec.rcs) :
              codec.rcs[k] = IF codec.phase = "fed" /\ k = Len(codec.rcs)
                               THEN "SlipDecodeEndOfFrame" ELSE "SlipDecodeOk"
        /\ codec.phase = "fed" =>
              /\ codec.rcs # <<>>
              /\ codec.dec.raw = CodecEnvelope

\* an envelope holding both the terminator and the escape byte has made the
\* round trip through a frame longer than itself
FrameRoundTripWitness ==
    /\ codec.phase = "fed"
    /\ \E i, j \in 1..Len(CodecEnvelope) :
          CodecEnvelope[i] = SLIP_END /\ CodecEnvelope[j] = SLIP_ESC
    /\ Len(codec.rcs) > Len(CodecEnvelope) + 1
    /\ codec.dec.raw = CodecEnvelope

\* bytes in which every escape byte is followed by an escaped terminator or
\* an escaped escape
WellStuffed(seg) ==
    \A i \in 1..Len(seg) :
        seg[i] = SLIP_ESC => (i < Len(seg) /\ seg[i + 1] \in {SLIP_ESC_END, SLIP_ESC_ESC})

\* what well-stuffed bytes stand for
RECURSIVE Unstuff(_)
Unstuff(seg) ==
    IF seg = <<>> THEN <<>>
    ELSE IF Head(seg) = SLIP_ESC
      THEN <<IF seg[2] = SLIP_ESC_END THEN SLIP_END ELSE SLIP_ESC>>
           \o Unstuff(SubSeq(seg, 3, Len(seg)))
    ELSE <<Head(seg)>> \o Unstuff(Tail(seg))

\* the stuffed frame of a well-formed envelope that fits the decoder
WellFormedFrame(seg) ==
    /\ WellStuffed(seg)
    /\ SLIP_END \notin {seg[i] : i \in 1..Len(seg)}
    /\ Len(Unstuff(seg)) <= DecoderSize
    /\ WellFormed(Unstuff(seg))

\* the log entry of a frame that ended at byte q of an input of n bytes, held
\* the envelope raw and was handed to handle_msg
Dispatched(f, raw, n, q) ==
    /\ f.rc = "SlipDecodeEndOfFrame"
    /\ f.raw = raw
    /\ f.ok
    /\ f.left = n - q

\* C16: resynchronization.  When the decoder has reported an error at a byte
\* and a well-formed frame follows that byte, at once in the same input or as
\* the start of the next one, that frame is decoded to exactly its envelope
\* and handed to handle_msg: nothing of what the decoder held at the error is
\* left, neither bytes nor a pending escape.
ResyncAfterError ==
    [][ (ClientDispatch /\ ~ev.hup /\ ev.in) =>
            LET c == ConnOfFd(ev.fd)
                id == slots[EventSlot].contextData
                rx == conn[c].rx
                n == Len(conn[c].rx)
                EndsAfter(p) == {q \in (p + 1)..n : rx[q] = SLIP_END}
            IN  /\ \A k \in 1..Len(frames') :
                      frames'[k].rc = "SlipDecodeError" =>
                          LET p == n - frames'[k].left
                          IN  /\ (/\ EndsAfter(p) # {}
                                  /\ WellFormedFrame(SubSeq(rx, p + 1, Min(EndsAfter(p)) - 1))) =>
                                     /\ k < Len(frames')
                                     /\ Dispatched(frames'[k + 1],
                                                   Unstuff(SubSeq(rx, p + 1, Min(EndsAfter(p)) - 1)),
                                                   n, Min(EndsAfter(p)))
                              /\ (p = n /\ heap'[id] # <<>>) =>
                                     /\ heap'[id][1].dec.raw = <<>>
                                     /\ ~heap'[id][1].dec.esc
                /\ (/\ heap[id][1].dec.raw = <<>> /\ ~heap[id][1].dec.esc
                    /\ EndsAfter(0) # {}
                    /\ WellFormedFrame(SubSeq(rx, 1, Min(EndsAfter(0)) - 1))) =>
                       /\ frames' # <<>>
                       /\ Dispatched(frames'[1], Unstuff(SubSeq(rx, 1, Min(EndsAfter(0)) - 1)),
                                     n, Min(EndsAfter(0)))
      ]_vars

\* a malformed escape was followed in the same input by a configuration,
\* which was decoded and made the connection Configured
ResyncAfterErrorWitness ==
    /\ pc = "wait"
    /\ \E i \in Slots :
          /\ slots[i].inUse
          /\ heap[slots[i].contextData] # <<>>
          /\ heap[slots[i].contextData][1].configSet
          /\ heap[slots[i].contextData][1].jsctx[1].config = ConfigOf(CfgA)
    /\ \E k \in 1..(Len(frames) - 1) :
          /\ frames[k].rc = "SlipDecodeError" /\ frames[k].raw # <<>>
          /\ frames[k + 1].ok /\ ~frames[k + 1].was
          /\ frames[k + 1].raw = EnvelopeBytes(tlvc_encode_data(0, CfgA))

\* C17 as stated: no message is handed to handle_msg from a frame, the bytes
\* between two terminators, in which the decoder reported an error.  (After an
\* error entry of the log the next entry is the error's own frame's end, or
\* another error in it.)
NoMessageFromFailedFrame ==
    \A k \in 2..Len(frames) :
        frames[k].ok => frames[k - 1].rc # "SlipDecodeError"

\* C17, amended: what the decoder held at an error is discarded, what follows
\* the error byte is not.  The buffer a frame's end meets is made of exactly
\* the bytes received since the last error or terminator, and of what the
\* decoder held before this input when there was none; so no envelope handed
\* to handle_msg holds a byte received before an error.
FailedFramePrefixDiscarded ==
    [][ (ClientDispatch /\ ~ev.hup /\ ev.in) =>
            LET c == ConnOfFd(ev.fd)
                id == slots[EventSlot].contextData
                rx == conn[c].rx
                n == Len(conn[c].rx)
            IN  /\ \A k \in 2..Len(frames') :
                      frames'[k].rc = "SlipDecodeEndOfFrame" =>
                          LET seg == SubSeq(rx, n - frames'[k - 1].left + 1,
                                            n - frames'[k].left - 1)
                          IN  /\ WellStuffed(seg)
                              /\ frames'[k].raw = Unstuff(seg)
                /\ (frames' # <<>> /\ frames'[1].rc = "SlipDecodeEndOfFrame") =>
                      LET seg == SubSeq(rx, 1, n - frames'[1].left - 1)
                          held == heap[id][1].dec.raw
                      IN  /\ Len(frames'[1].raw) >= Len(held)
                          /\ Prefix(frames'[1].raw, Len(held)) = held
                          /\ (held = <<>> /\ ~heap[id][1].dec.esc) =>
                                (WellStuffed(seg) /\ frames'[1].raw = Unstuff(seg))
                /\ \A k \in 1..Len(frames') : frames'[k].ok => frames'[k].rc = "SlipDecodeEndOfFrame"
      ]_vars

\* a frame in which the decoder reported an error has ended with a message
\* handed to handle_msg, made of the bytes after the error only
FailedFramePrefixDiscardedWitness ==
    /\ pc = "wait"
    /\ \E k \in 1..(Len(frames) - 1) :
          /\ frames[k].rc = "SlipDecodeError" /\ frames[k].raw = <<1>>
          /\ frames[k + 1].ok /\ frames[k + 1].left = 0
          /\ 1 \notin {frames[k + 1].raw[i] : i \in 1..2}

\* the signed 32-bit value four bytes hold, low byte first
SignedLE(b) ==
    b[1] + 256 * b[2] + 65536 * b[3]
      + 16777216 * (IF b[4] >= 128 THEN b[4] - 256 ELSE b[4])

\* the events the frames before the k-th of a log emitted
EmittedBefore(log, k) == SumSeq([j \in 1..(k - 1) |-> log[j].emitted])

\* the configuration in force when the k-th frame of the dispatch is handled
\* on a connection whose context was h: the one h holds, or the one an earlier
\* frame of the same dispatch set
ActiveConfig(h, log, k) ==
    IF h.configSet THEN h.jsctx[1].config
    ELSE LET j == CHOOSE j \in 1..(k - 1) : ConfigMessage(log[j]) /\ ~log[j].was
         IN  ConfigOf(PayloadOf(log[j].raw))

\* C19: a report is re-emitted field by field.  In every dispatch the events
\* written are those of its tag-1 messages seen while Configured, message by
\* message in order of arrival, and nothing else.  Each such message gives
\* absAxisCount EV_ABS events, then relAxisCount EV_REL events, then
\* buttonCount EV_KEY events, then one EV_SYN with code 0 and value 0, all to
\* the connection's device; the i-th event of a group carries the i-th code
\* of that group in the configuration, and the value held at its position of
\* the payload (four bytes, low byte first and signed, for an axis; one byte
\* for a button) whenever the payload reaches that far.
ReportReemitted ==
    [][ ClientDispatch =>
            LET h == heap[slots[EventSlot].contextData][1]
                log == frames'
                Report(k) == MessageOf(log[k], 1) /\ log[k].was
            IN  /\ Len(out') = EmittedBefore(log, Len(log) + 1)
                /\ \A k \in 1..Len(log) : ~Report(k) => log[k].emitted = 0
                /\ \E dev \in FdPool :
                      /\ h.configSet => dev = h.jsctx[1].fd
                      /\ ~h.configSet => dev \notin fds
                      /\ \A k \in 1..Len(log) : Report(k) =>
                            LET cfg == ActiveConfig(h, log, k)
                                p == PayloadOf(log[k].raw)
                                na == cfg.absAxisCount
                                nr == cfg.relAxisCount
                                nb == cfg.buttonCount
                                seg == SubSeq(out', EmittedBefore(log, k) + 1,
                                              EmittedBefore(log, k) + log[k].emitted)
                            IN  /\ log[k].emitted = na + nr + nb + 1
                                /\ \A i \in 1..na :
                                      /\ seg[i].fd = dev /\ seg[i].type = "EV_ABS"
                                      /\ seg[i].code = cfg.absAxis[i]
                                      /\ 4 * i <= Len(p) =>
                                            seg[i].value = SignedLE(SubSeq(p, 4 * i - 3, 4 * i))
                                /\ \A i \in 1..nr :
                                      /\ seg[na + i].fd = dev /\ seg[na + i].type = "EV_REL"
                                      /\ seg[na + i].code = cfg.relAxis[i]
                                      /\ 4 * (na + i) <= Len(p) =>
                                            seg[na + i].value
                                              = SignedLE(SubSeq(p, 4 * (na + i) - 3, 4 * (na + i)))
                                /\ \A i \in 1..nb :
                                      /\ seg[na + nr + i].fd = dev /\ seg[na + nr + i].type = "EV_KEY"
                                      /\ seg[na + nr + i].code = cfg.buttons[i]
                                      /\ 4 * (na + nr) + i <= Len(p) =>
                                            seg[na + nr + i].value = p[4 * (na + nr) + i]
                                /\ seg[na + nr + nb + 1]
                                     = [fd |-> dev, type |-> "EV_SYN", code |-> 0, value |-> 0]
      ]_vars

\* one read has brought a configuration of one absolute axis and one button
\* and a report of the full size for it: the axis, the button and the sync
\* have been written to the new device
ReportReemittedWitness ==
    /\ pc = "wait"
    /\ Len(frames) = 2
    /\ ConfigMessage(frames[1]) /\ ~frames[1].was /\ PayloadOf(frames[1].raw) = CfgA
    /\ MessageOf(frames[2], 1) /\ frames[2].was /\ PayloadOf(frames[2].raw) = RepA
    /\ \E dev \in FdPool :
          out = <<[fd |-> dev, type |-> "EV_ABS", code |-> 1, value |-> 500],
                  [fd |-> dev, type |-> "EV_KEY", code |-> 2, value |-> 1],
                  [fd |-> dev, type |-> "EV_SYN", code |-> 0, value |-> 0]>>

(***************************************************************************)
(* Properties of the capturing client.                                     *)
(***************************************************************************)
\* C18: on every call of run_client the configuration is transmitted at most
\* once and before anything else.  Each call of encode_and_transmit adds a
\* part of its frame, or all of it, to the connection; the first call of a
\* session carries tag 0 and the js_config_t scanned from the device, every
\* later one tag 1; a report is transmitted only from the event loop, which
\* is entered only after the configuration went out whole; and a failed
\* transmission, of the configuration or of a report, ends the session, if
\* not the process.
ConfigSentOnceAndFirst ==
    [][ /\ client'.pc = "loop" =>
              /\ client'.msgs # <<>>
              /\ client'.msgs[1] = [tag |-> 0, ok |-> TRUE]
        /\ client'.msgs # client.msgs =>
              \/ /\ client.pc = "backoff" /\ client'.pc = "start"
                 /\ client'.msgs = <<>>
                 /\ client'.wire = <<>>
              \/ \E m \in [tag : {0, 1}, ok : BOOLEAN] :
                    /\ client'.msgs = Append(client.msgs, m)
                    /\ client'.session = client.session
                    /\ (m.tag = 0) <=> (client.msgs = <<>>)
                    /\ (m.tag = 0) <=> (client.pc = "config")
                    /\ (m.tag = 1) <=> (client.pc = "loop")
                    /\ \A i \in 1..Len(client.msgs) : client.msgs[i].ok
                    /\ LET data == IF m.tag = 0 THEN BuildConfig(client.caps) ELSE client.report
                           frame == Frame(m.tag, data)
                       IN  \E k \in 0..Len(frame) :
                              /\ client'.wire = client.wire \o Prefix(frame, k)
                              /\ m.ok <=> (k = Len(frame))
                    /\ IF m.ok THEN client'.pc = "loop"
                       ELSE client'.pc \in {"backoff", "killed"}
      ]_vars

\* a session that sent its configuration and a report, and ended when the
\* transmission of the next report failed
ConfigSentOnceAndFirstWitness ==
    /\ client.pc = "backoff"
    /\ client.msgs = <<[tag |-> 0, ok |-> TRUE], [tag |-> 1, ok |-> TRUE],
                       [tag |-> 1, ok |-> FALSE]>>

\* whether the q-th event of the session c was recorded for the i-th code
\* of a kind: it is of that kind and has that code, or it is of that kind,
\* has the code KEY_MAX and the index read after the map's array was i - 1
RecordedFor(c, q, type, i) ==
    LET codes == IF type = "EV_ABS" THEN c.caps.abs
                 ELSE IF type = "EV_REL" THEN c.caps.rel ELSE c.caps.key
    IN  /\ c.evs[q].type = type
        /\ \/ c.evs[q].code = codes[i]
           \/ c.evs[q].code >= KEY_MAX /\ c.idxs[q] = i - 1

\* the value the client holds for the i-th code of a kind when it handles the
\* p-th event of its session: that of the latest earlier event recorded for
\* it, a button's as pressed (1) or not (0); zero when there was none
LastRecorded(c, p, type, i) ==
    LET hits == {q \in 1..(p - 1) : RecordedFor(c, q, type, i)}
    IN  IF hits = {} THEN 0
        ELSE LET v == c.evs[CHOOSE q \in hits : \A r \in hits : r <= q].value
             IN  IF type = "EV_KEY" THEN (IF v # 0 THEN 1 ELSE 0) ELSE v

\* the events due at device fd for the sync boundary that is the p-th event
ReportEvents(c, p, fd) ==
    [i \in 1..Len(c.caps.abs) |->
        [fd |-> fd, type |-> "EV_ABS", code |-> c.caps.abs[i],
         value |-> LastRecorded(c, p, "EV_ABS", i)]]
    \o [i \in 1..Len(c.caps.rel) |->
        [fd |-> fd, type |-> "EV_REL", code |-> c.caps.rel[i],
         value |-> LastRecorded(c, p, "EV_REL", i)]]
    \o [i \in 1..Len(c.caps.key) |->
        [fd |-> fd, type |-> "EV_KEY", code |-> c.caps.key[i],
         value |-> LastRecorded(c, p, "EV_KEY", i)]]
    \o <<[fd |-> fd, type |-> "EV_SYN", code |-> 0, value |-> 0]>>

\* the position among the events of the j-th sync boundary
SyncAt(evs, j) ==
    CHOOSE p \in 1..Len(evs) :
        /\ evs[p].type = "EV_SYN"
        /\ Cardinality({q \in 1..p : evs[q].type = "EV_SYN"}) = j

\* the events due at device fd for all the reports of the session that were
\* transmitted whole, in order
DueEvents(c, fd) ==
    Flatten([j \in 1..(Len(c.msgs) - 1) |->
                IF c.msgs[j + 1].ok THEN ReportEvents(c, SyncAt(c.evs, j), fd)
                ELSE <<>>])

\* C20: end to end.  The server holds the configuration the client scanned
\* from its device, and the events it has emitted for the session are, report
\* by report in the order of the client's sync boundaries, one event per
\* configured axis and button carrying the value the client last recorded for
\* it before that boundary, then a sync event; once the server has read all
\* the client wrote, every report transmitted whole has been emitted so.
EndToEnd ==
    LET devs == client.srvFds \ {ClientSock}
        dev == IF devs = {} THEN -1 ELSE CHOOSE d \in devs : TRUE
        due == DueEvents(client, dev)
    IN  /\ Cardinality(devs) <= 1
        /\ (client.srv # <<>> /\ client.srv[1].configSet) =>
              LET cfg == client.srv[1].jsctx[1].config
              IN  /\ client.srv[1].jsctx[1].fd = dev
                  /\ cfg.absAxisCount = Len(client.caps.abs)
                  /\ cfg.relAxisCount = Len(client.caps.rel)
                  /\ cfg.buttonCount = Len(client.caps.key)
                  /\ Prefix(cfg.absAxis, cfg.absAxisCount) = client.caps.abs
                  /\ Prefix(cfg.relAxis, cfg.relAxisCount) = client.caps.rel
                  /\ Prefix(cfg.buttons, cfg.buttonCount) = client.caps.key
        /\ Len(client.got) <= Len(due)
        /\ client.got = Prefix(due, Len(client.got))
        /\ client.wire = <<>> => client.got = due

\* the client saw absolute axis 1 go to 500, button 2 pressed and a sync
\* boundary, and the server has emitted the three events of the report
EndToEndWitness ==
    /\ client.caps = [abs |-> <<1>>, rel |-> <<>>, key |-> <<2>>]
    /\ client.evs = <<Event("EV_ABS", 1, 500), Event("EV_KEY", 2, 7), Event("EV_SYN", 0, 0)>>
    /\ client.wire = <<>>
    /\ \E dev \in FdPool :
          client.got = <<[fd |-> dev, type |-> "EV_ABS", code |-> 1, value |-> 500],
                         [fd |-> dev, type |-> "EV_KEY", code |-> 2, value |-> 1],
                         [fd |-> dev, type |-> "EV_SYN", code |-> 0, value |-> 0]>>

\* run_client has returned, or the process has ended inside it
SessionEnded == client.pc \in {"backoff", "killed"}

\* C21 as stated: the client never gives up.  The client process never ends,
\* and whenever a session has ended, for whatever reason, a new session is
\* started.
ClientNeverGivesUp ==
    /\ [](client.pc # "killed")
    /\ SessionEnded ~> (client.pc = "start")

\* whether the device's scan gave the event's (type, code) an index
Mapped(caps, e) ==
    \/ e.type = "EV_ABS" /\ (\E i \in 1..Len(caps.abs) : caps.abs[i] = e.code)
    \/ e.type = "EV_REL" /\ (\E i \in 1..Len(caps.rel) : caps.rel[i] = e.code)
    \/ e.type = "EV_KEY" /\ (\E i \in 1..Len(caps.key) : caps.key[i] = e.code)

\* the event loop handles an event in this step
HandlesEvent ==
    /\ client.pc = "loop"
    /\ Len(client'.evs) = Len(client.evs) + 1

\* C24: an event that is no sync boundary and whose (type, code) the scan
\* gave no index is ignored: the step that handles it leaves rawReport as
\* it was, transmits nothing and leaves the loop running.
UnmappedIgnored ==
    [][(HandlesEvent
        /\ client'.evs[Len(client'.evs)].type # "EV_SYN"
        /\ ~Mapped(client.caps, client'.evs[Len(client'.evs)]))
       => /\ client'.report = client.report
          /\ client'.msgs = client.msgs
          /\ client'.wire = client.wire
          /\ client'.pc = "loop"]_vars

\* the event handled in this step
Handled == client'.evs[Len(client'.evs)]

\* the offset in rawReport of the buttons
ButtonOffset(caps) == 4 * (Len(caps.abs) + Len(caps.rel))

\* the position of a code among the codes of a kind
PositionOf(codes, code) == CHOOSE i \in 1..Len(codes) : codes[i] = code

\* C25: button bytes are 0 or 1.  The bytes a sync boundary puts on the
\* socket are those of the tag-1 frame of rawReport, or the first of them,
\* and each button byte of rawReport is then 0 or 1; and the step that
\* handles an event of a button the scan found leaves 1 at the button's
\* position when the event's value is not zero and 0 when it is.
ButtonBytesBoolean ==
    [][HandlesEvent =>
         /\ Handled.type = "EV_SYN" =>
               /\ \A i \in (ButtonOffset(client.caps) + 1)..Len(client.report) :
                     client.report[i] \in {0, 1}
               /\ \E k \in 0..Len(Frame(1, client.report)) :
                     client'.wire = client.wire \o Prefix(Frame(1, client.report), k)
         /\ (Handled.type = "EV_KEY" /\ Mapped(client.caps, Handled)) =>
               client'.report[ButtonOffset(client.caps)
                              + PositionOf(client.caps.key, Handled.code)]
                 = (IF Handled.value # 0 THEN 1 ELSE 0)]_vars

\* the client saw button 2 go to 7 and then to 0, each followed by a sync
\* boundary, and both reports were transmitted whole
ButtonBytesBooleanWitness ==
    /\ client.caps = [abs |-> <<1>>, rel |-> <<>>, key |-> <<2>>]
    /\ client.evs = <<Event("EV_KEY", 2, 7), Event("EV_SYN", 0, 0),
                      Event("EV_KEY", 2, 0)>>
    /\ client.msgs = <<[tag |-> 0, ok |-> TRUE], [tag |-> 1, ok |-> TRUE]>>
    /\ client.report = <<0, 0, 0, 0, 0>>

\* the bytes of rawReport an event is stored at: those of the position of
\* its code among the codes of its kind; for the key of code KEY_MAX, those
\* of the index read after the map's array; none when it has no index
SlotBytes(caps, e, idx) ==
    LET i == IF e.code >= KEY_MAX THEN idx
             ELSE IF ~Mapped(caps, e) THEN -1
             ELSE IF e.type = "EV_ABS" THEN PositionOf(caps.abs, e.code) - 1
             ELSE IF e.type = "EV_REL" THEN PositionOf(caps.rel, e.code) - 1
             ELSE PositionOf(caps.key, e.code) - 1
    IN  IF i < 0 \/ e.type \notin {"EV_ABS", "EV_REL", "EV_KEY"} THEN {}
        ELSE IF e.type = "EV_ABS" THEN (4 * i + 1)..(4 * i + 4)
        ELSE IF e.type = "EV_REL"
          THEN (4 * Len(caps.abs) + 4 * i + 1)..(4 * Len(caps.abs) + 4 * i + 4)
        ELSE {ButtonOffset(caps) + i + 1}

\* how many of the entries of a sequence satisfy a test
Count(s, Test(_)) == Cardinality({i \in 1..Len(s) : Test(s[i])})

IsSync(e) == e.type = "EV_SYN"

IsReport(msg) == msg.tag = 1

\* C26: one report per sync boundary.  The tag-1 messages transmitted in a
\* session are as many as the sync boundaries handled.  The step that
\* handles a sync boundary transmits one tag-1 message, whose bytes are
\* those of the frame of the whole of rawReport (all of them when the
\* transmit succeeds), and leaves rawReport as it is; the step that handles
\* any other event transmits nothing and leaves every byte of rawReport
\* outside the slot the event is stored at as it was.
OneReportPerSync ==
    /\ [](Count(client.msgs, IsReport) = Count(client.evs, IsSync))
    /\ [][HandlesEvent =>
            IF Handled.type = "EV_SYN"
              THEN /\ Len(client'.msgs) = Len(client.msgs) + 1
                   /\ Prefix(client'.msgs, Len(client.msgs)) = client.msgs
                   /\ client'.msgs[Len(client'.msgs)].tag = 1
                   /\ \E k \in 0..Len(Frame(1, client.report)) :
                         /\ client'.wire = client.wire \o Prefix(Frame(1, client.report), k)
                         /\ client'.msgs[Len(client'.msgs)].ok
                              <=> k = Len(Frame(1, client.report))
                   /\ client'.report = client.report
              ELSE /\ client'.msgs = client.msgs
                   /\ client'.wire = client.wire
                   /\ Len(client'.report) = Len(client.report)
                   /\ \A i \in 1..Len(client.report) :
                         i \notin SlotBytes(client.caps, Handled,
                                            client'.idxs[Len(client'.idxs)])
                           => client'.report[i] = client.report[i]]_vars

\* absolute axis 1 went to 500 and two sync boundaries followed: two
\* reports were transmitted whole and rawReport still holds the 500
OneReportPerSyncWitness ==
    /\ client.caps = [abs |-> <<1>>, rel |-> <<>>, key |-> <<2>>]
    /\ client.evs = <<Event("EV_ABS", 1, 500), Event("EV_SYN", 0, 0), Event("EV_SYN", 0, 0)>>
    /\ client.msgs = <<[tag |-> 0, ok |-> TRUE], [tag |-> 1, ok |-> TRUE],
                       [tag |-> 1, ok |-> TRUE]>>
    /\ client.report = I32LE(500) \o <<0>>
    /\ client.wire = Frame(0, client.config) \o Frame(1, client.report)
                        \o Frame(1, client.report)

(***************************************************************************)
(* Further properties of the connection server.                            *)
(***************************************************************************)
\* the descriptors that belong to connection c: its socket and its device
FdsOfConn(c) ==
    (IF conn[c].st = "accepted" THEN {conn[c].fd} ELSE {})
    \cup (IF heap[c] # <<>> /\ heap[c][1].jsctx # NULL THEN {heap[c][1].jsctx[1].fd} ELSE {})

\* C22: connection isolation.  The dispatch of an event of one connection's
\* socket, be it a read, a hangup or a teardown, leaves every other slot as
\* it was, and of every other connection the context (decoder, configured
\* flag, device and configuration), the socket with what it holds, the
\* handler calls counted, the descriptors, the registration and the edges
\* not yet reported; and it writes no event to another connection's device.
ConnectionIsolation ==
    [][ ClientDispatch =>
            LET me == ConnOfFd(ev.fd)
            IN  /\ \A j \in Slots \ {EventSlot} : slots'[j] = slots[j]
                /\ \A c \in Conns \ {me} :
                      /\ heap'[c] = heap[c]
                      /\ conn'[c] = conn[c]
                      /\ calls'[c] = calls[c]
                      /\ FdsOfConn(c) \subseteq fds'
                      /\ FdsOfConn(c) \cap registered \subseteq registered'
                      /\ FdsOfConn(c) \cap ready \subseteq ready'
                      /\ \A k \in 1..Len(out') : out'[k].fd \notin FdsOfConn(c)
      ]_vars

\* a connection has just been torn down while another, configured, holds
\* its slot and its device
ConnectionIsolationWitness ==
    /\ pc = "wait"
    /\ \E i, j \in Slots :
          /\ i # j
          /\ slots[i].inUse
          /\ heap[slots[i].contextData] # <<>>
          /\ heap[slots[i].contextData][1].configSet
          /\ ~slots[j].inUse
          /\ ops # <<>> /\ ops[Len(ops)] = <<"free", j>>

\* C27: a hangup or an error goes before input.  The dispatch of an event of
\* a connection's socket that shows a hangup or an error, with or without
\* input, calls no onReadData, reads nothing and emits nothing, and tears the
\* connection down: onDisconnect is called with its context and, unless
\* epoll_del fails and the process exits, the socket is unregistered and
\* closed and the slot is freed.
HangupSkipsRead ==
    [][(/\ pc = "dispatch" /\ pc' # "dispatch"
        /\ ev.fd # ServerFd
        /\ ev.hup
        /\ \E i \in Slots : slots[i].clientFd = ev.fd)
       => LET i == CHOOSE j \in Slots : slots[j].clientFd = ev.fd
              id == slots[i].contextData
              c == ConnOfFd(ev.fd)
          IN  /\ \A k \in 1..Len(ops') : ops'[k][1] # "onReadData"
              /\ calls'[id].read = calls[id].read
              /\ out' = <<>>
              /\ frames' = <<>>
              /\ ops'[1] = <<"onDisconnect", id>>
              /\ calls'[id].disconnect = calls[id].disconnect + 1
              /\ heap'[id] = <<>>
              /\ \/ pc' = "exited"
                 \/ /\ conn'[c].st = "ended"
                    /\ ~slots'[i].inUse
                    /\ ev.fd \notin fds'
                    /\ ev.fd \notin registered']_vars

\* a connection whose peer went away was torn down on the event that showed
\* the hangup (an event that shows input as well, see PollIn), and its read
\* handler was never called
HangupSkipsReadWitness ==
    /\ pc = "wait"
    /\ Len(ops) = 4
    /\ \E id \in Conns :
          /\ ops[1] = <<"onDisconnect", id>>
          /\ conn[id].st = "ended"
          /\ calls[id] = [connect |-> 1, read |-> 0, disconnect |-> 1]

\* the handler's state after the next n bytes of st.buf went to the decoder,
\* one after the other: the n-th after the n - 1 before it
RECURSIVE FedThrough(_, _, _)
FedThrough(st, n, stale) ==
    IF n = 0 THEN st
    ELSE CHOOSE r \in {on_read_byte(before, stale) :
                          before \in {FedThrough(st, n - 1, stale)}} : TRUE

\* C28: the read handler drains the socket.  A dispatch that calls onReadData
\* gives every byte the socket holds to the decoder, in order, and leaves the
\* socket empty; it ends the connection exactly when the read that ended the
\* loop met the end of the stream, and otherwise leaves the connection
\* open.  And while the server runs and the peer has not closed, bytes that
\* have arrived on an accepted connection do get read.
ReadDrains ==
    /\ [][(/\ pc = "dispatch" /\ pc' # "dispatch"
            /\ ev.fd # ServerFd
            /\ ~ev.hup /\ ev.in
            /\ \E i \in Slots : slots[i].clientFd = ev.fd)
           => LET i == CHOOSE j \in Slots : slots[j].clientFd = ev.fd
                  id == slots[i].contextData
                  c == ConnOfFd(ev.fd)
                  st0 == [c |-> heap[id][1], fds |-> fds, out |-> <<>>,
                          frames |-> <<>>, buf |-> conn[c].rx]
              IN  /\ ops'[1] = <<"onReadData", id>>
                  /\ \E stale \in StaleBytes :
                        LET st == FedThrough(st0, Len(conn[c].rx), stale)
                        IN  /\ out' = st.out
                            /\ frames' = st.frames
                            /\ conn[c].peer # "fin" => heap'[id] = <<st.c>>
                  /\ (\E k \in 1..Len(ops') : ops'[k][1] = "onDisconnect")
                        <=> conn[c].peer = "fin"
                  /\ conn[c].peer # "fin" =>
                        /\ conn'[c].st = "accepted"
                        /\ conn'[c].rx = <<>>]_vars
    /\ \A c \in Conns :
          (conn[c].st = "accepted" /\ conn[c].rx # <<>>)
            ~> (conn[c].rx = <<>> \/ conn[c].peer # "open" \/ ~Alive)

\* two frames arrived together and one call of the read handler has decoded
\* both; the connection stays open
ReadDrainsWitness ==
    /\ pc = "wait"
    /\ Len(ops) = 1 /\ ops[1][1] = "onReadData"
    /\ Len(frames) = 2
    /\ frames[1].ok /\ frames[2].ok
    /\ \E c \in Conns :
          conn[c].st = "accepted" /\ conn[c].peer = "open" /\ conn[c].rx = <<>>

\* the handler calls of a step, in order
HandlerCalls(log) ==
    SelectSeq(log, LAMBDA op : op[1] \in {"onConnect", "onReadData", "onDisconnect"})

\* C29: the handlers' lifecycle.  The context of a connection is known by the
\* connection it was made for.  No context is ever given to onConnect or to
\* onDisconnect twice, a slot in use holds the live context of the connection
\* whose socket it holds (while the process has not exited in the middle of
\* a teardown), and a connection that has ended has had its
\* onDisconnect.  In a step, onConnect is called for the connection accepted,
\* which had no context yet, and before its socket is registered; onReadData
\* and onDisconnect are called with the context made for the connection
\* whose event is dispatched, which is live and has not been given to
\* onDisconnect before; and nothing is called after onDisconnect.
HandlerLifecycle ==
    /\ [](\A c \in Conns :
            /\ calls[c].connect <= 1
            /\ calls[c].disconnect <= calls[c].connect
            /\ (heap[c] # <<>>) <=> (calls[c].connect = 1 /\ calls[c].disconnect = 0)
            /\ conn[c].st = "ended" => calls[c].disconnect = 1
            /\ conn[c].st \in {"idle", "queued", "refused"} => calls[c].connect = 0)
    /\ [](\A i \in Slots :
            (slots[i].inUse /\ pc # "exited") =>
                /\ heap[slots[i].contextData] # <<>>
                /\ conn[slots[i].contextData].st = "accepted"
                /\ conn[slots[i].contextData].fd = slots[i].clientFd)
    /\ [][\A k \in 1..Len(ops') :
            LET op == ops'[k]
            IN  /\ op[1] = "onConnect" =>
                      /\ k = 1
                      /\ pc = "dispatch" /\ ev.fd = ServerFd
                      /\ op[2] = Head(backlog)
                      /\ calls[op[2]].connect = 0
                      /\ calls'[op[2]].connect = 1
                      /\ conn'[op[2]].fd \notin registered
                      /\ Len(HandlerCalls(ops')) = 1
                      /\ conn'[op[2]].fd \in registered' =>
                              ops'[2] = <<"epoll_add", conn'[op[2]].fd>>
                /\ op[1] = "epoll_add" => k = 2 /\ ops'[1][1] = "onConnect"
                /\ op[1] \in {"onReadData", "onDisconnect"} =>
                      /\ pc = "dispatch"
                      /\ op[2] = ConnOfFd(ev.fd)
                      /\ heap[op[2]] # <<>>
                      /\ calls[op[2]] = [connect |-> 1, read |-> calls[op[2]].read,
                                          disconnect |-> 0]
                /\ op[1] = "onDisconnect" =>
                      /\ \A j \in (k + 1)..Len(ops') : ops'[j][1] \notin
                             {"onConnect", "onReadData", "onDisconnect"}
                      /\ calls'[op[2]].disconnect = 1
                      /\ heap'[op[2]] = <<>>]_vars

\* a slot is in use for the second time: the connection it served first has
\* had its onDisconnect, and the connection it serves now has been read from
\* with its own context
HandlerLifecycleWitness ==
    /\ pc = "wait"
    /\ \E i \in Slots, c, d \in Conns :
          /\ c # d
          /\ calls[c] = [connect |-> 1, read |-> 1, disconnect |-> 1]
          /\ slots[i].inUse /\ slots[i].contextData = d
          /\ conn[d].fd = Min(FdPool)
          /\ calls[d] = [connect |-> 1, read |-> 1, disconnect |-> 0]
          /\ ops = <<<<"onReadData", d>>>>
          /\ \A j \in Slots \ {i} : ~slots[j].inUse

\* C30 as stated: every connection is accepted.  While server_run runs, a
\* connection that has reached the listening socket and whose peer stays is
\* in the end taken from it, and given a slot or refused.
EveryConnectionAccepted ==
    \A c \in Conns :
        (conn[c].st = "queued")
          ~> (conn[c].st # "queued" \/ conn[c].peer # "open" \/ ~Alive)

\* what the read handler would make of the bytes waiting in connection c's
\* socket
Pending(c, stale) ==
    FedThrough([c |-> heap[c][1], fds |-> fds, out |-> <<>>, frames |-> <<>>,
                buf |-> conn[c].rx], Len(conn[c].rx), stale)

\* C31 as stated: nothing received is lost to the close.  When a connection
\* whose peer has closed its side is torn down and the bytes waiting in its
\* socket hold a frame with a valid envelope, the step that tears it down
\* has decoded those bytes and dispatched their frames first.
ReceivedBeforeCloseDispatched ==
    [][\A c \in Conns :
         (/\ conn[c].st = "accepted" /\ conn[c].peer = "fin"
          /\ heap[c] # <<>> /\ heap'[c] = <<>>
          /\ \E stale \in StaleBytes :
                \E k \in 1..Len(Pending(c, stale).frames) :
                    Pending(c, stale).frames[k].ok)
         => /\ ops'[1] = <<"onReadData", c>>
            /\ \E stale \in StaleBytes : frames' = Pending(c, stale).frames]_vars

(***************************************************************************)
(* Properties of the event forwarder.                                      *)
(***************************************************************************)
\* the threads between the first and the last insertion of a line
Writing == {t \in Threads : fwd.pc[t] \in {"dump", "endl"}}

\* C23: writes to the shared stream are serialized.  At most one thread is
\* writing a line at any time, and it holds the mutex; so on the stream every
\* text is followed at once by the line end of the same writer, the last
\* text only when its writer has not got to the line end yet, and every line
\* end follows a text of its writer.
WritesSerialized ==
    /\ Cardinality(Writing) <= 1
    /\ \A t \in Writing : fwd.mutex = t
    /\ \A i \in 1..Len(fwd.stream) :
          LET p == fwd.stream[i]
          IN  IF p.kind = "text"
                THEN IF i < Len(fwd.stream)
                       THEN fwd.stream[i + 1] = EndlPiece(p.by)
                       ELSE p.by \in Threads /\ fwd.pc[p.by] = "endl"
                ELSE i > 1 /\ fwd.stream[i - 1].kind = "text" /\ fwd.stream[i - 1].by = p.by

\* one thread is between the text and the end of its line while the other,
\* with an event read, waits for the mutex, and both have written a line before
WritesSerializedWitness ==
    /\ \E t, u \in Threads :
          /\ t # u
          /\ fwd.pc[t] = "endl"
          /\ fwd.pc[u] = "lock"
          /\ \E i \in 1..Len(fwd.stream) : fwd.stream[i] = EndlPiece(u)

\* C33 as stated: once done_flag is set, every thread writes at most one
\* further line, and run() joins all threads and returns failure.
DoneStopsForwarder ==
    /\ [](\A t \in Threads : fwd.late[t] <= 1)
    /\ [](fwd.exit = "success" => ~fwd.done)
    /\ fwd.done ~> (fwd.exit = "failure")

(***************************************************************************)
(* Properties of the write loop.                                           *)
(***************************************************************************)
\* C32 as stated: the contract of encode_and_transmit.  Whatever the writes
\* do, the socket has taken the first bytes of the frame, each once and in
\* order, and raw and remaining tell how many; a write that is interrupted
\* or would block leaves the call in its loop; the call returns true only
\* with the whole frame written, and false exactly after a write that failed
\* otherwise; and a call in its loop does return.
TransmitContract ==
    /\ [](/\ tx.sock = Prefix(tx.frame, tx.raw)
          /\ tx.raw + tx.remaining = Len(tx.frame))
    /\ [](tx.last = "again" => tx.pc = "loop")
    /\ [](tx.pc = "true" => tx.sock = tx.frame)
    /\ [](tx.last = "failed" <=> tx.pc = "false")
    /\ (tx.pc = "loop") ~> (tx.pc \in {"true", "false"})

====
